---- MODULE Spec2Model ----
(***************************************************************************)
(* The bounded session pool of the YDB adapter (YdbSessionPool and         *)
(* YdbSessionManager, src/src/queryable.ts lines 60-262) as a state        *)
(* machine.  JavaScript runs one flow at a time and a flow gives up the    *)
(* processor only at an `await`; every action below is the code that one   *)
(* flow runs between two awaits.                                           *)
(***************************************************************************)
EXTENDS Integers, Sequences, FiniteSets, TLC

\* ------------------------------------------------------------------------
\* Bounds of the model
\* ------------------------------------------------------------------------
NumCallers == 3
MaxPoolSize == 2
MaxSessions == 3
MaxTime == 1
MaxRepeatCalls == 1
idleTimeoutMs == 0
MaxTxIds == 1
MaxParts == 3
MaxIssues == 2
MaxTextLen == 5
MaxArgs == 2

Callers == 1..NumCallers
Sessions == 1..MaxSessions
NoSession == 0

\* txId arguments: the id of the transaction flow t began is t; undefined and
\* the empty string are the two falsy values of `txId?: string`
NoTx == 0
EmptyTx == -1
TxIds == 1..MaxTxIds

\* collect has thrown nothing / returned nothing
NoError == [kind |-> "none", status |-> "SUCCESS", issues |-> 0]
NoQuery == [sql |-> <<>>, args |-> <<>>]
NoPrepared == [text |-> <<"none">>, parameters |-> <<>>]
\* createTxControl returned undefined: the request has no txControl field
NoTxControl == [selector |-> "undefined", txId |-> NoTx, txMode |-> "none", commitTx |-> FALSE]
\* no request record yet
NoRequest == [query |-> NoQuery, text |-> <<>>, txControl |-> NoTxControl, built |-> FALSE]
\* let rowsAffected: number | undefined, and result.rowsAffected left unset
Absent == -1
\* the execStats of a part that carries none, and result.stats left unset
NoStats == [present |-> FALSE, queryPhases |-> <<>>]
\* no record at all: its rowsAffected is no value a record of collect can have
NoResult == [columns |-> <<>>, rows |-> <<>>, rowsAffected |-> Absent - 1,
             stats |-> NoStats]

VARIABLES
    maxSize,          \* options.maxSize
    idleSessions,     \* YdbSessionPool.idleSessions, a sequence of session ids
    totalSessions,    \* YdbSessionPool.totalSessions
    pendingAcquires,  \* YdbSessionPool.pendingAcquires, the callers whose resolve is queued
    lastUsed,         \* ManagedSession.lastUsed of every session
    now,              \* Date.now()
    createdSessions,  \* number of sessions createSession has returned so far
    deleteCalls,      \* number of deleteSession requests issued per session
    pc,               \* where the flow of each caller stands
    closure,          \* the session captured by the release closure acquire returned
    released,         \* the `released` flag of that closure
    taken,            \* the local `session` of fulfillPending (result of takeIdle)
    ctx,              \* which operation of the caller runs fulfillPending
    repeatCalls,      \* history: calls of a release closure that had been called before
    via,              \* history: how the caller's acquire got its session
    served,           \* history: waiters resolved by the caller's fulfillPending
    sawWaiter,        \* history: fulfillPending of the caller started with a waiter queued
    acqMutated,       \* history: the caller's acquire itself changed idle set or total
    ahead,            \* history: the callers that were queued when the caller called acquire
    burst,            \* history: every acquire so far ran its checks before any create returned
    drained,          \* history: the callers that held a session when drain() ran
    connected,        \* YdbClientWrapper.connected
    transactionManager, \* YdbClientWrapper.driver, sessionPool and transactionManager are set
    connectPc,        \* where the connect() call stands
    closePc,          \* where the close() call stands
    closeAwaits,      \* the transactions whose release dispose() waits for
    transactions,     \* YdbTransactionManager.transactions: txId -> context.session
    op,               \* the client operation each flow was called with
    wpc,              \* where the client operation of each flow stands
    txArg,            \* the txId argument of the operation
    result,           \* how the operation ended for its caller
    issued,           \* history: the operation sent its request to the backend
    answer,           \* history: whether the backend answered the request with success
    usedSession,      \* history: the session the request was sent on
    calledIn,         \* history: the state of the client when the operation was called
    stream,           \* the parts of the stream collect was called with
    consumed,         \* the number of parts the loop of collect has taken
    columns,          \* collect's local `columns`
    rows,             \* collect's local `rows`
    collectPc,        \* where the call of collect stands
    collectError,     \* the error collect threw
    returned,         \* the result collect returned
    rowsAffected,     \* collect's local rowsAffected
    stats,            \* collect's local stats
    query,            \* the SqlQuery prepare was called with
    prepared,         \* the PreparedQuery prepare returned
    prepareError,     \* the error prepare threw
    preparePc,        \* where the call of prepare stands
    deleteOutcomes,   \* history: how the deleteSession requests were answered so far
    request           \* per flow, the query executeQuery was called with and the
                      \* request record it builds for the backend

poolVars == <<idleSessions, totalSessions, pendingAcquires>>
sessionPoolVars == <<maxSize, idleSessions, totalSessions, pendingAcquires, lastUsed, now,
                     createdSessions, deleteCalls, pc, closure, released, taken, ctx,
                     repeatCalls, via, served, sawWaiter, acqMutated, ahead, burst,
                     drained>>
clientVars == <<connected, transactionManager, connectPc, closePc, closeAwaits, transactions, op,
                wpc, txArg, result, issued, answer, usedSession, calledIn>>
normalizerVars == <<stream, consumed, columns, rows, collectPc, collectError, returned,
                    rowsAffected, stats>>
preparerVars == <<query, prepared, prepareError, preparePc>>
codecVars == <<preparerVars, normalizerVars>>
backendVars == <<deleteOutcomes, request>>
vars == <<sessionPoolVars, clientVars, codecVars, backendVars>>

\* ------------------------------------------------------------------------
\* Helpers
\* ------------------------------------------------------------------------
Range(s) == {s[i] : i \in 1..Len(s)}

Max(a, b) == IF a >= b THEN a ELSE b

DecrementNothing(total, n) == total

\* Math.max(0, this.totalSessions - n)
Decrement(total, n) == Max(0, total - n)

IssueNoDeletes(calls, seq) == calls

\* manager.delete(session) for every session of a sequence: one request each
IssueDeletes(calls, seq) ==
    [s \in Sessions |->
        calls[s] + Cardinality({i \in 1..Len(seq) : seq[i] = s})]

\* now - session.lastUsed > idleTimeoutMs
Expired(s) == now - lastUsed[s] > idleTimeoutMs

NotExpired(s) == ~Expired(s)

\* if (this.totalSessions < this.options.maxSize)
HasCapacity(total) == total < maxSize

\* this.idleSessions.pop(): the session taken, and what is left
PopTaken(idle) == idle[Len(idle)]

PopRestPeek(idle) == idle

PopRest(idle) == SubSeq(idle, 1, Len(idle) - 1)

ShiftTakenNewest(pend) == pend[Len(pend)]

\* this.pendingAcquires.shift(): the resolve taken, and what is left
ShiftTaken(pend) == Head(pend)

ShiftRest(pend) == Tail(pend)

AlreadyReleasedIgnored(c) == FALSE

\* if (released) return
AlreadyReleased(c) == released[c]

WaiterQueuedIgnored(pend) == FALSE

\* const pending = this.pendingAcquires.shift(); if (pending)
WaiterQueued(pend) == pend # <<>>

\* A flow resumed by `await this.evictExpired()` or `await this.takeIdle()`
\* continues as a microtask; the answer of a backend call (createSession,
\* attachSession, deleteSession) is delivered by the event loop, which runs
\* only when no microtask is left.
MicrotaskPending == \E c \in Callers : pc[c] \in {"obtain", "fp_took"}

BackendAnswers == ~MicrotaskPending

\* where fulfillPending returns to, and where its exception ends
FPReturn(k) == IF k = "evict" THEN "obtain" ELSE "done"

FPThrow(k) == IF k = "evict" THEN "failed" ELSE "threw"

Init ==
    /\ maxSize \in 1..MaxPoolSize
    /\ idleSessions = <<>>
    /\ totalSessions = 0
    /\ pendingAcquires = <<>>
    /\ lastUsed = [s \in Sessions |-> 0]
    /\ now = 0
    /\ createdSessions = 0
    /\ deleteCalls = [s \in Sessions |-> 0]
    /\ pc = [c \in Callers |-> "start"]
    /\ closure = [c \in Callers |-> NoSession]
    /\ released = [c \in Callers |-> FALSE]
    /\ taken = [c \in Callers |-> NoSession]
    /\ ctx = [c \in Callers |-> "none"]
    /\ repeatCalls = 0
    /\ via = [c \in Callers |-> "none"]
    /\ served = [c \in Callers |-> 0]
    /\ sawWaiter = [c \in Callers |-> FALSE]
    /\ acqMutated = [c \in Callers |-> FALSE]
    /\ ahead = [c \in Callers |-> {}]
    /\ burst = TRUE
    /\ drained = {}
    /\ connected = FALSE
    /\ transactionManager = FALSE
    /\ connectPc = "idle"
    /\ closePc = "idle"
    /\ closeAwaits = {}
    /\ transactions = [t \in Callers |-> NoSession]
    /\ op = [f \in Callers |-> "none"]
    /\ wpc = [f \in Callers |-> "idle"]
    /\ txArg = [f \in Callers |-> NoTx]
    /\ result = [f \in Callers |-> "none"]
    /\ issued = [f \in Callers |-> FALSE]
    /\ answer = [f \in Callers |-> "none"]
    /\ usedSession = [f \in Callers |-> NoSession]
    /\ calledIn = [f \in Callers |-> "none"]
    /\ stream = <<>>
    /\ consumed = 0
    /\ columns = <<>>
    /\ rows = <<>>
    /\ collectPc = "idle"
    /\ collectError = NoError
    /\ returned = NoResult
    /\ rowsAffected = Absent
    /\ stats = NoStats
    /\ query = NoQuery
    /\ prepared = NoPrepared
    /\ prepareError = "none"
    /\ preparePc = "idle"
    /\ deleteOutcomes = "none"
    /\ request = [f \in Callers |-> NoRequest]

\* ------------------------------------------------------------------------
\* fulfillPending (lines 233-261), from the loop test up to its next await
\* or its return.  idleV, pendV, luV and pcV are the values the running step
\* has produced so far; k is the operation that called fulfillPending.
\* ------------------------------------------------------------------------
FulfillPendingLoop(c, k, idleV, pendV, luV, pcV) ==
    /\ pendingAcquires' = pendV
    /\ IF pendV = <<>>
       THEN \* while (this.pendingAcquires.length > 0) is false: return
            /\ idleSessions' = idleV
            /\ lastUsed' = luV
            /\ taken' = [taken EXCEPT ![c] = NoSession]
            /\ pc' = [pcV EXCEPT ![c] = FPReturn(k)]
       ELSE \* await this.takeIdle(): the pop runs before the flow suspends
            IF idleV # <<>>
            THEN /\ idleSessions' = PopRest(idleV)
                 /\ lastUsed' = [luV EXCEPT ![PopTaken(idleV)] = now]
                 /\ taken' = [taken EXCEPT ![c] = PopTaken(idleV)]
                 /\ pc' = [pcV EXCEPT ![c] = "fp_took"]
            ELSE /\ idleSessions' = idleV
                 /\ lastUsed' = luV
                 /\ taken' = [taken EXCEPT ![c] = NoSession]
                 /\ pc' = [pcV EXCEPT ![c] = "fp_took"]

\* ------------------------------------------------------------------------
\* acquire -> obtainSession -> evictExpired (lines 109-116, 131-133, 207-231)
\* ------------------------------------------------------------------------
AcquireCall(c) ==
    /\ pc[c] = "start"
    /\ burst' = (burst /\ createdSessions = 0)
    /\ ahead' = [ahead EXCEPT ![c] = Range(pendingAcquires)]
    /\ IF idleSessions = <<>>
       THEN \* if (this.idleSessions.length === 0) return
            /\ pc' = [pc EXCEPT ![c] = "obtain"]
            /\ UNCHANGED <<idleSessions, totalSessions, deleteCalls, acqMutated>>
       ELSE LET active == SelectSeq(idleSessions, NotExpired)
                expired == SelectSeq(idleSessions, Expired)
            IN  /\ idleSessions' = active
                /\ IF expired # <<>>
                   THEN /\ totalSessions' = Decrement(totalSessions, Len(expired))
                        /\ deleteCalls' = IssueDeletes(deleteCalls, expired)
                        /\ acqMutated' = [acqMutated EXCEPT ![c] = TRUE]
                        /\ pc' = [pc EXCEPT ![c] = "evict_del"]
                   ELSE /\ pc' = [pc EXCEPT ![c] = "obtain"]
                        /\ UNCHANGED <<totalSessions, deleteCalls, acqMutated>>
    /\ UNCHANGED <<maxSize, drained, pendingAcquires, lastUsed, now, createdSessions,
                   closure, released, taken, ctx, repeatCalls, via, served, sawWaiter>>

\* evictExpired after `await Promise.all(expired.map(delete))`: fulfillPending
EvictDeleted(c) ==
    /\ pc[c] = "evict_del"
    /\ BackendAnswers
    /\ ctx' = [ctx EXCEPT ![c] = "evict"]
    /\ sawWaiter' = [sawWaiter EXCEPT ![c] = pendingAcquires # <<>>]
    /\ FulfillPendingLoop(c, "evict", idleSessions, pendingAcquires, lastUsed, pc)
    /\ UNCHANGED <<maxSize, drained, totalSessions, now, createdSessions, deleteCalls,
                   closure, released, repeatCalls, via, served, acqMutated, ahead, burst>>

\* obtainSession after `await this.evictExpired()` (lines 134-146) and
\* waitForSession (lines 149-156)
ObtainSession(c) ==
    /\ pc[c] = "obtain"
    /\ IF idleSessions # <<>>
       THEN \* const idle = this.idleSessions.pop(); idle.lastUsed = Date.now()
            /\ idleSessions' = PopRest(idleSessions)
            /\ lastUsed' = [lastUsed EXCEPT ![PopTaken(idleSessions)] = now]
            /\ closure' = [closure EXCEPT ![c] = PopTaken(idleSessions)]
            /\ via' = [via EXCEPT ![c] = "idle"]
            /\ pc' = [pc EXCEPT ![c] = "holding"]
            /\ UNCHANGED pendingAcquires
       ELSE IF HasCapacity(totalSessions)
       THEN \* const created = await this.manager.create()
            /\ pc' = [pc EXCEPT ![c] = "create"]
            /\ UNCHANGED <<idleSessions, lastUsed, closure, via, pendingAcquires>>
       ELSE \* return this.waitForSession()
            /\ pendingAcquires' = Append(pendingAcquires, c)
            /\ pc' = [pc EXCEPT ![c] = "waiting"]
            /\ UNCHANGED <<idleSessions, lastUsed, closure, via>>
    /\ burst' = (burst /\ createdSessions = 0)
    /\ UNCHANGED <<maxSize, drained, totalSessions, now, createdSessions, deleteCalls,
                   released, taken, ctx, repeatCalls, served, sawWaiter, acqMutated, ahead>>

CountCreatedBeforeAnswer(total, ok) == total + 1

\* this.totalSessions += 1 runs only after manager.create() has returned
CountCreated(total, ok) == IF ok THEN total + 1 ELSE total

\* manager.create() (lines 63-82) answers the create of obtainSession
Created(c, outcome) ==
    /\ pc[c] = "create"
    /\ BackendAnswers
    /\ outcome \in {"ok", "createFailed", "attachFailed"}
    /\ outcome # "createFailed" => createdSessions < MaxSessions
    /\ createdSessions' = IF outcome = "createFailed" THEN createdSessions
                          ELSE createdSessions + 1
    /\ totalSessions' = CountCreated(totalSessions, outcome = "ok")
    /\ IF outcome = "ok"
       THEN /\ lastUsed' = [lastUsed EXCEPT ![createdSessions + 1] = now]
            /\ closure' = [closure EXCEPT ![c] = createdSessions + 1]
            /\ via' = [via EXCEPT ![c] = "create"]
            /\ pc' = [pc EXCEPT ![c] = "holding"]
       ELSE /\ pc' = [pc EXCEPT ![c] = "failed"]
            /\ UNCHANGED <<lastUsed, closure, via>>
    /\ UNCHANGED <<maxSize, drained, idleSessions, pendingAcquires, now, deleteCalls,
                   released, taken, ctx, repeatCalls, served, sawWaiter, acqMutated, ahead, burst>>

\* ------------------------------------------------------------------------
\* fulfillPending after `await this.takeIdle()` (lines 236-250)
\* ------------------------------------------------------------------------
FPAfterTake(c) ==
    /\ pc[c] = "fp_took"
    /\ IF taken[c] # NoSession
       THEN IF pendingAcquires # <<>>
            THEN \* const resolve = this.pendingAcquires.shift(); resolve(session); continue
                 LET w == ShiftTaken(pendingAcquires) IN
                 /\ closure' = [closure EXCEPT ![w] = taken[c]]
                 /\ via' = [via EXCEPT ![w] = "fulfill"]
                 /\ served' = [served EXCEPT ![c] = @ + 1]
                 /\ FulfillPendingLoop(c, ctx[c], idleSessions,
                        ShiftRest(pendingAcquires),
                        [lastUsed EXCEPT ![taken[c]] = now],
                        [pc EXCEPT ![w] = "holding"])
            ELSE \* this.idleSessions.push(session); break
                 /\ idleSessions' = Append(idleSessions, taken[c])
                 /\ taken' = [taken EXCEPT ![c] = NoSession]
                 /\ pc' = [pc EXCEPT ![c] = FPReturn(ctx[c])]
                 /\ UNCHANGED <<pendingAcquires, lastUsed, closure, via, served>>
       ELSE IF ~HasCapacity(totalSessions)
            THEN \* if (this.totalSessions >= this.options.maxSize) break
                 /\ pc' = [pc EXCEPT ![c] = FPReturn(ctx[c])]
                 /\ UNCHANGED <<idleSessions, pendingAcquires, lastUsed, closure,
                                via, served, taken>>
            ELSE \* const created = await this.manager.create()
                 /\ pc' = [pc EXCEPT ![c] = "fp_create"]
                 /\ UNCHANGED <<idleSessions, pendingAcquires, lastUsed, closure,
                                via, served, taken>>
    /\ UNCHANGED <<maxSize, drained, totalSessions, now, createdSessions, deleteCalls,
                   released, ctx, repeatCalls, sawWaiter, acqMutated, ahead, burst>>

\* manager.create() answers the create of fulfillPending (lines 250-259)
FPCreated(c, outcome) ==
    /\ pc[c] = "fp_create"
    /\ BackendAnswers
    /\ outcome \in {"ok", "createFailed", "attachFailed"}
    /\ outcome # "createFailed" => createdSessions < MaxSessions
    /\ createdSessions' = IF outcome = "createFailed" THEN createdSessions
                          ELSE createdSessions + 1
    /\ totalSessions' = CountCreated(totalSessions, outcome = "ok")
    /\ IF outcome = "ok"
       THEN LET s == createdSessions + 1 IN
            IF pendingAcquires # <<>>
            THEN \* created.lastUsed = Date.now(); resolve(created); loop again
                 LET w == ShiftTaken(pendingAcquires) IN
                 /\ closure' = [closure EXCEPT ![w] = s]
                 /\ via' = [via EXCEPT ![w] = "fulfill"]
                 /\ served' = [served EXCEPT ![c] = @ + 1]
                 /\ FulfillPendingLoop(c, ctx[c], idleSessions,
                        ShiftRest(pendingAcquires),
                        [lastUsed EXCEPT ![s] = now],
                        [pc EXCEPT ![w] = "holding"])
            ELSE \* this.idleSessions.push(created); break
                 /\ idleSessions' = Append(idleSessions, s)
                 /\ lastUsed' = [lastUsed EXCEPT ![s] = now]
                 /\ pc' = [pc EXCEPT ![c] = FPReturn(ctx[c])]
                 /\ UNCHANGED <<pendingAcquires, closure, via, served, taken>>
       ELSE \* the exception leaves fulfillPending and its caller
            /\ pc' = [pc EXCEPT ![c] = FPThrow(ctx[c])]
            /\ UNCHANGED <<idleSessions, pendingAcquires, lastUsed, closure, via,
                           served, taken>>
    /\ UNCHANGED <<maxSize, drained, now, deleteCalls, released, ctx, repeatCalls, sawWaiter,
                   acqMutated, ahead, burst>>

\* ------------------------------------------------------------------------
\* The release closure (lines 166-189) and trimExcess (lines 191-205)
\* ------------------------------------------------------------------------
Release(c, error) ==
    /\ closure[c] # NoSession
    /\ pc[c] = "holding" \/ (released[c] /\ repeatCalls < MaxRepeatCalls)
    /\ repeatCalls' = IF released[c] THEN repeatCalls + 1 ELSE repeatCalls
    /\ IF AlreadyReleased(c)
       THEN \* if (released) return
            UNCHANGED <<idleSessions, totalSessions, pendingAcquires, lastUsed,
                        deleteCalls, pc, closure, released, via>>
       ELSE /\ released' = [released EXCEPT ![c] = TRUE]
            /\ IF error
               THEN \* await this.manager.delete(session)
                    /\ deleteCalls' = IssueDeletes(deleteCalls, <<closure[c]>>)
                    /\ pc' = [pc EXCEPT ![c] = "rel_del"]
                    /\ UNCHANGED <<idleSessions, totalSessions, pendingAcquires,
                                   lastUsed, closure, via>>
               ELSE IF WaiterQueued(pendingAcquires)
               THEN \* const pending = this.pendingAcquires.shift(); pending(session)
                    LET w == ShiftTaken(pendingAcquires) IN
                    /\ pendingAcquires' = ShiftRest(pendingAcquires)
                    /\ lastUsed' = [lastUsed EXCEPT ![closure[c]] = now]
                    /\ closure' = [closure EXCEPT ![w] = closure[c]]
                    /\ via' = [via EXCEPT ![w] = "handoff"]
                    /\ pc' = [pc EXCEPT ![c] = "done", ![w] = "holding"]
                    /\ UNCHANGED <<idleSessions, totalSessions, deleteCalls>>
               ELSE \* this.idleSessions.push(session); await this.trimExcess()
                    LET pushed == Append(idleSessions, closure[c])
                        overflowCount == Max(0, Len(pushed) - maxSize)
                        overflow == SubSeq(pushed, 1, overflowCount)
                    IN  /\ lastUsed' = [lastUsed EXCEPT ![closure[c]] = now]
                        /\ IF (totalSessions <= maxSize /\ Len(pushed) <= maxSize)
                              \/ overflowCount = 0
                           THEN /\ idleSessions' = pushed
                                /\ pc' = [pc EXCEPT ![c] = "done"]
                                /\ UNCHANGED <<totalSessions, deleteCalls>>
                           ELSE /\ idleSessions' =
                                       SubSeq(pushed, overflowCount + 1, Len(pushed))
                                /\ totalSessions' = Decrement(totalSessions, Len(overflow))
                                /\ deleteCalls' = IssueDeletes(deleteCalls, overflow)
                                /\ pc' = [pc EXCEPT ![c] = "trim_del"]
                        /\ UNCHANGED <<pendingAcquires, closure, via>>
    /\ UNCHANGED <<maxSize, drained, now, createdSessions, taken, ctx, served, sawWaiter,
                   acqMutated, ahead, burst>>

\* trimExcess after `await Promise.all(overflow.map(delete))`: release returns
TrimDeleted(c) ==
    /\ pc[c] = "trim_del"
    /\ BackendAnswers
    /\ pc' = [pc EXCEPT ![c] = "done"]
    /\ UNCHANGED <<maxSize, drained, idleSessions, totalSessions, pendingAcquires, lastUsed,
                   now, createdSessions, deleteCalls, closure, released, taken, ctx,
                   repeatCalls, via, served, sawWaiter, acqMutated, ahead, burst>>

\* release(error) after `await this.manager.delete(session)` (lines 174-175)
ReleaseDeleted(c) ==
    /\ pc[c] = "rel_del"
    /\ BackendAnswers
    /\ totalSessions' = Decrement(totalSessions, 1)
    /\ ctx' = [ctx EXCEPT ![c] = "release"]
    /\ sawWaiter' = [sawWaiter EXCEPT ![c] = pendingAcquires # <<>>]
    /\ FulfillPendingLoop(c, "release", idleSessions, pendingAcquires, lastUsed, pc)
    /\ UNCHANGED <<maxSize, drained, now, createdSessions, deleteCalls, closure, released,
                   repeatCalls, via, served, acqMutated, ahead, burst>>

\* ------------------------------------------------------------------------
\* destroy (lines 118-122), called by the holder in place of its release
\* ------------------------------------------------------------------------
Destroy(c) ==
    /\ pc[c] = "holding"
    /\ totalSessions' = Decrement(totalSessions, 1)
    /\ deleteCalls' = IssueDeletes(deleteCalls, <<closure[c]>>)
    /\ pc' = [pc EXCEPT ![c] = "destroy_del"]
    /\ UNCHANGED <<maxSize, drained, idleSessions, pendingAcquires, lastUsed, now,
                   createdSessions, closure, released, taken, ctx, repeatCalls, via,
                   served, sawWaiter, acqMutated, ahead, burst>>

DestroyDeleted(c) ==
    /\ pc[c] = "destroy_del"
    /\ BackendAnswers
    /\ ctx' = [ctx EXCEPT ![c] = "destroy"]
    /\ sawWaiter' = [sawWaiter EXCEPT ![c] = pendingAcquires # <<>>]
    /\ FulfillPendingLoop(c, "destroy", idleSessions, pendingAcquires, lastUsed, pc)
    /\ UNCHANGED <<maxSize, drained, totalSessions, now, createdSessions, deleteCalls,
                   closure, released, repeatCalls, via, served, acqMutated, ahead, burst>>

\* ------------------------------------------------------------------------
\* drain (lines 124-129); nothing follows its await
\* ------------------------------------------------------------------------
Drain ==
    /\ idleSessions # <<>>
    /\ idleSessions' = <<>>
    /\ totalSessions' = Decrement(totalSessions, Len(idleSessions))
    /\ deleteCalls' = IssueDeletes(deleteCalls, idleSessions)
    /\ drained' = drained \cup {c \in Callers : pc[c] = "holding"}
    /\ UNCHANGED <<maxSize, pendingAcquires, lastUsed, now, createdSessions, pc,
                   closure, released, taken, ctx, repeatCalls, via, served, sawWaiter,
                   acqMutated, ahead, burst>>

\* the clock Date.now() reads
Tick ==
    /\ now < MaxTime
    /\ now' = now + 1
    /\ UNCHANGED <<maxSize, drained, idleSessions, totalSessions, pendingAcquires, lastUsed,
                   createdSessions, deleteCalls, pc, closure, released, taken, ctx,
                   repeatCalls, via, served, sawWaiter, acqMutated, ahead, burst>>

Next ==
    \/ \E c \in Callers : AcquireCall(c) /\ UNCHANGED <<clientVars, codecVars, backendVars>>
    \/ \E c \in Callers : EvictDeleted(c) /\ UNCHANGED <<clientVars, codecVars, backendVars>>
    \/ \E c \in Callers : ObtainSession(c) /\ UNCHANGED <<clientVars, codecVars, backendVars>>
    \/ \E c \in Callers : \E o \in {"ok", "createFailed", "attachFailed"} : Created(c, o) /\ UNCHANGED <<clientVars, codecVars, backendVars>>
    \/ \E c \in Callers : FPAfterTake(c) /\ UNCHANGED <<clientVars, codecVars, backendVars>>
    \/ \E c \in Callers : \E o \in {"ok", "createFailed", "attachFailed"} : FPCreated(c, o) /\ UNCHANGED <<clientVars, codecVars, backendVars>>
    \/ \E c \in Callers : \E e \in BOOLEAN : Release(c, e) /\ UNCHANGED <<clientVars, codecVars, backendVars>>
    \/ \E c \in Callers : TrimDeleted(c) /\ UNCHANGED <<clientVars, codecVars, backendVars>>
    \/ \E c \in Callers : ReleaseDeleted(c) /\ UNCHANGED <<clientVars, codecVars, backendVars>>
    \/ \E c \in Callers : Destroy(c) /\ UNCHANGED <<clientVars, codecVars, backendVars>>
    \/ \E c \in Callers : DestroyDeleted(c) /\ UNCHANGED <<clientVars, codecVars, backendVars>>
    \/ Drain /\ UNCHANGED <<clientVars, codecVars, backendVars>>
    \/ Tick /\ UNCHANGED <<clientVars, codecVars, backendVars>>

Spec == Init /\ [][Next]_vars

TypeOK ==
    /\ maxSize \in 1..MaxPoolSize
    /\ Range(idleSessions) \subseteq Sessions
    /\ totalSessions \in Nat
    /\ Range(pendingAcquires) \subseteq Callers
    /\ now \in 0..MaxTime
    /\ createdSessions \in 0..MaxSessions


\* ------------------------------------------------------------------------
\* YdbClientWrapper (src/unnamed/part_003 lines 614-853) and
\* YdbTransactionManager (src/src/transaction-manager.ts).  Every flow calls
\* one operation of the client; the transaction flow f begins has txId f and
\* is pinned to the session of the release closure of f.
\* ------------------------------------------------------------------------
QueryTxArgs == {NoTx, EmptyTx} \cup TxIds

BackendOutcomes == {"ok", "status", "throws"}

\* if (txId)
TruthyNever(txId) == FALSE

Truthy(txId) == txId \notin {NoTx, EmptyTx}

TxLiveAlways(map, t) == TRUE

\* const tx = this.transactions.get(txId); if (!tx)
TxLive(map, t) == map[t] # NoSession

EnsuredAlways(handle) == TRUE

\* if (!this.transactionManager) throw, and the same test of ensureDriver and
\* ensureSessionPool on fields that are set and cleared together
Ensured(handle) == handle

\* ensureDriver: if (!driver || !this.connected) throw
EnsureDriver == Ensured(transactionManager) /\ connected

\* the state of the client an operation is called in: connect() has not
\* completed, close() has completed, or in between
ClientPhase ==
    IF connectPc # "done" THEN "early"
    ELSE IF closePc = "closed" THEN "late"
    ELSE "open"

\* a commit or rollback of transaction t found it in the map and has returned
Ended(t) ==
    \E g \in Callers :
        /\ op[g] \in {"commit", "rollback"}
        /\ txArg[g] = t
        /\ answer[g] # "none"
        /\ wpc[g] = "done"

\* what an operation called with txId t meets: the phase of the client, or
\* a transaction that a commit or rollback has finished
CallContext(t) ==
    IF ClientPhase = "open" /\ t \in TxIds /\ Ended(t) THEN "ended"
    ELSE ClientPhase

\* the error the caller gets for an answer of the backend; rollback does not
\* look at the status of the answer
ErrorOf(o, outcome) ==
    IF outcome = "throws" THEN "BackendError"
    ELSE IF outcome = "status" /\ o # "rollback" THEN "BackendError"
    ELSE "ok"

\* the release closure whose promise the operation awaits
RelSlot(f) == IF op[f] \in {"commit", "rollback"} THEN txArg[f] ELSE f

\* an operation ends at once with an error, before it touched anything
Rejected(f, o, t, r) ==
    /\ op' = [op EXCEPT ![f] = o]
    /\ txArg' = [txArg EXCEPT ![f] = t]
    /\ calledIn' = [calledIn EXCEPT ![f] = CallContext(t)]
    /\ wpc' = [wpc EXCEPT ![f] = "done"]
    /\ result' = [result EXCEPT ![f] = r]
    /\ UNCHANGED <<sessionPoolVars, connected, transactionManager, connectPc,
                   closePc, closeAwaits, transactions, issued, answer, usedSession>>

\* an operation goes on to sessionPool.acquire()
Acquiring(f, o, t) ==
    /\ op' = [op EXCEPT ![f] = o]
    /\ txArg' = [txArg EXCEPT ![f] = t]
    /\ calledIn' = [calledIn EXCEPT ![f] = CallContext(t)]
    /\ wpc' = [wpc EXCEPT ![f] = "acquiring"]
    /\ AcquireCall(f)
    /\ UNCHANGED <<connected, transactionManager, connectPc, closePc, closeAwaits,
                   transactions, result, issued, answer, usedSession>>

\* an operation sends its request on a pinned session and awaits the answer
Sent(f, o, t, s) ==
    /\ op' = [op EXCEPT ![f] = o]
    /\ txArg' = [txArg EXCEPT ![f] = t]
    /\ calledIn' = [calledIn EXCEPT ![f] = CallContext(t)]
    /\ wpc' = [wpc EXCEPT ![f] = "inflight"]
    /\ issued' = [issued EXCEPT ![f] = TRUE]
    /\ usedSession' = [usedSession EXCEPT ![f] = s]
    /\ UNCHANGED <<sessionPoolVars, connected, transactionManager, connectPc,
                   closePc, closeAwaits, transactions, result, answer>>

\* Which flow makes which call: the flows 1..MaxTxIds begin the transactions
\* and run the scripts, the other flows end the transactions and query on
\* them, every flow queries without a txId, and the last flow passes the
\* empty txId.
MayCall(f, o, t) ==
    CASE o \in {"begin", "script"} -> f \in TxIds
      [] o \in {"commit", "rollback"} -> f \notin TxIds
      [] o = "query" -> /\ t \in TxIds => f \notin TxIds
                        /\ t = EmptyTx => f = NumCallers

\* connect() (lines 624-636)
ConnectCall ==
    /\ connectPc = "idle"
    /\ ~connected
    /\ connectPc' = "ready"
    /\ UNCHANGED <<sessionPoolVars, connected, transactionManager, closePc,
                   closeAwaits, transactions, op, wpc, txArg, result, issued, answer,
                   usedSession, calledIn>>

\* connect() after `await driver.ready()`
ConnectReady(ok) ==
    /\ connectPc = "ready"
    /\ IF ok
       THEN /\ transactionManager' = TRUE
            /\ connected' = TRUE
            /\ connectPc' = "done"
       ELSE /\ connectPc' = "failed"
            /\ UNCHANGED <<transactionManager, connected>>
    /\ UNCHANGED <<sessionPoolVars, closePc, closeAwaits, transactions, op, wpc,
                   txArg, result, issued, answer, usedSession, calledIn>>

\* executeQuery (lines 638-655), up to its first await
ExecuteQuery(f, t) ==
    /\ wpc[f] = "idle"
    /\ t \in QueryTxArgs
    /\ MayCall(f, "query", t)
    /\ IF ~(EnsureDriver /\ Ensured(transactionManager))
       THEN Rejected(f, "query", NoTx, "NotConnected")
       ELSE IF Truthy(t)
       THEN \* session = transactionManager.require(txId).session
            IF TxLive(transactions, t)
            THEN Sent(f, "query", t, transactions[t])
            ELSE Rejected(f, "query", t, "UnknownTransaction")
       ELSE Acquiring(f, "query", t)

\* executeScript (lines 690-694), up to its first await
ExecuteScript(f) ==
    /\ wpc[f] = "idle"
    /\ MayCall(f, "script", NoTx)
    /\ IF ~EnsureDriver
       THEN Rejected(f, "script", NoTx, "NotConnected")
       ELSE Acquiring(f, "script", NoTx)

\* beginTransaction (lines 724-726) and begin (transaction-manager.ts line 20)
BeginCall(f) ==
    /\ wpc[f] = "idle"
    /\ IF ~Ensured(transactionManager)
       THEN Rejected(f, "begin", NoTx, "NotConnected")
       ELSE Acquiring(f, "begin", NoTx)

BeginTransaction(f) == MayCall(f, "begin", NoTx) /\ BeginCall(f)

\* commitTransaction / rollbackTransaction (lines 731-739) and commit /
\* rollback (transaction-manager.ts lines 58-66, 76-84), up to the await
EndTransaction(f, o, t) ==
    /\ wpc[f] = "idle"
    /\ o \in {"commit", "rollback"}
    /\ t \in TxIds
    /\ MayCall(f, o, t)
    /\ IF ~Ensured(transactionManager)
       THEN Rejected(f, o, NoTx, "NotConnected")
       ELSE IF TxLive(transactions, t)
       THEN Sent(f, o, t, transactions[t])
       ELSE Rejected(f, o, t, "UnknownTransaction")

\* sessionPool.acquire() has settled: the request goes out on the acquired
\* session (part_003 lines 657-681, 695-711; transaction-manager.ts lines
\* 23-27), or the error of acquire leaves the operation
AcquireSettled(f) ==
    /\ wpc[f] = "acquiring"
    /\ pc[f] \in {"holding", "failed"}
    /\ IF pc[f] = "holding"
       THEN /\ wpc' = [wpc EXCEPT ![f] = "inflight"]
            /\ issued' = [issued EXCEPT ![f] = TRUE]
            /\ usedSession' = [usedSession EXCEPT ![f] = closure[f]]
            /\ UNCHANGED result
       ELSE /\ wpc' = [wpc EXCEPT ![f] = "done"]
            /\ result' = [result EXCEPT ![f] = "AcquireFailed"]
            /\ UNCHANGED <<issued, usedSession>>
    /\ UNCHANGED <<sessionPoolVars, connected, transactionManager, connectPc,
                   closePc, closeAwaits, transactions, op, txArg, answer, calledIn>>

\* `release` of executeQuery is set only when the session was acquired
HasRelease(t) == ~Truthy(t)

CatchReleaseArgNone(caught) == FALSE

\* catch (error) { await release(error) }: the argument is the error caught
CatchReleaseArg(caught) == caught

FinallyReleaseArgError(outcome) == TRUE

\* finally { await release() }: no error is passed
FinallyReleaseArg(outcome) == FALSE

\* the answer of an executeQuery or executeScript request: collect or the
\* loop over the parts returns or throws (part_003 lines 680-687, 711-721)
QueryAnswered(f, outcome) ==
    /\ wpc[f] = "inflight"
    /\ op[f] \in {"query", "script"}
    /\ BackendAnswers
    /\ outcome \in BackendOutcomes
    /\ answer' = [answer EXCEPT ![f] = IF outcome = "ok" THEN "ok" ELSE "failed"]
    /\ result' = [result EXCEPT ![f] = ErrorOf(op[f], outcome)]
    /\ IF HasRelease(txArg[f])
       THEN IF outcome = "ok"
            THEN \* finally { await release() }
                 /\ Release(f, FinallyReleaseArg(outcome))
                 /\ wpc' = [wpc EXCEPT ![f] = "finishing"]
            ELSE \* catch (error) { await release(error) }
                 /\ Release(f, CatchReleaseArg(TRUE))
                 /\ wpc' = [wpc EXCEPT ![f] = "catching"]
       ELSE /\ wpc' = [wpc EXCEPT ![f] = "done"]
            /\ UNCHANGED sessionPoolVars
    /\ UNCHANGED <<connected, transactionManager, connectPc, closePc, closeAwaits,
                   transactions, op, txArg, issued, usedSession, calledIn>>

\* the answer of beginTransaction (transaction-manager.ts lines 29-47); no
\* txMeta.id in a successful answer is the outcome "status"
BeginAnswered(f, outcome) ==
    /\ wpc[f] = "inflight"
    /\ op[f] = "begin"
    /\ BackendAnswers
    /\ outcome \in BackendOutcomes
    /\ answer' = [answer EXCEPT ![f] = IF outcome = "ok" THEN "ok" ELSE "failed"]
    /\ IF outcome = "ok"
       THEN \* this.transactions.set(context.txId, context)
            /\ transactions' = [transactions EXCEPT ![f] = closure[f]]
            /\ wpc' = [wpc EXCEPT ![f] = "done"]
            /\ result' = [result EXCEPT ![f] = "ok"]
            /\ UNCHANGED sessionPoolVars
       ELSE \* catch (error) { await release(error); throw error }
            /\ Release(f, CatchReleaseArg(TRUE))
            /\ wpc' = [wpc EXCEPT ![f] = "catching"]
            /\ result' = [result EXCEPT ![f] = ErrorOf("begin", outcome)]
            /\ UNCHANGED transactions
    /\ UNCHANGED <<connected, transactionManager, connectPc, closePc, closeAwaits,
                   op, txArg, issued, usedSession, calledIn>>

RunsFinishOnSuccess(outcome) == outcome = "ok"

\* finally { await this.finish(txId) } runs after every outcome
RunsFinish(outcome) == TRUE

\* the answer of commitTransaction / rollbackTransaction, then finish
\* (transaction-manager.ts lines 67-73, 85-87, 95-103)
EndAnswered(f, outcome) ==
    /\ wpc[f] = "inflight"
    /\ op[f] \in {"commit", "rollback"}
    /\ BackendAnswers
    /\ outcome \in BackendOutcomes
    /\ answer' = [answer EXCEPT ![f] = IF outcome = "ok" THEN "ok" ELSE "failed"]
    /\ result' = [result EXCEPT ![f] = ErrorOf(op[f], outcome)]
    /\ IF RunsFinish(outcome) /\ TxLive(transactions, txArg[f])
       THEN \* this.transactions.delete(txId); await tx.release(undefined)
            /\ transactions' = [transactions EXCEPT ![txArg[f]] = NoSession]
            /\ Release(txArg[f], FALSE)
            /\ wpc' = [wpc EXCEPT ![f] = "finishing"]
       ELSE \* if (!tx) return
            /\ wpc' = [wpc EXCEPT ![f] = "done"]
            /\ UNCHANGED <<sessionPoolVars, transactions>>
    /\ UNCHANGED <<connected, transactionManager, connectPc, closePc, closeAwaits,
                   op, txArg, issued, usedSession, calledIn>>

\* the promise of the release closure has settled; an error thrown by
\* release(error) takes the place of the error caught, and after the catch
\* block of executeQuery / executeScript the finally block calls release()
\* again
ReleaseSettled(f) ==
    /\ wpc[f] \in {"catching", "finishing"}
    /\ pc[RelSlot(f)] \in {"done", "threw"}
    /\ result' = [result EXCEPT ![f] =
                      IF pc[RelSlot(f)] = "threw" THEN "ReleaseError" ELSE @]
    /\ IF wpc[f] = "catching" /\ op[f] \in {"query", "script"}
          /\ ~AlreadyReleased(f)
       THEN /\ Release(f, FALSE)
            /\ wpc' = [wpc EXCEPT ![f] = "finishing"]
       ELSE /\ wpc' = [wpc EXCEPT ![f] = "done"]
            /\ UNCHANGED sessionPoolVars
    /\ UNCHANGED <<connected, transactionManager, connectPc, closePc, closeAwaits,
                   transactions, op, txArg, issued, answer, usedSession, calledIn>>

LiveTransactions == {t \in Callers : TxLive(transactions, t)}

\* the sessions of a set of live transactions, as a sequence
RECURSIVE SessionsOf(_)
SessionsOf(ts) ==
    IF ts = {} THEN <<>>
    ELSE LET t == CHOOSE x \in ts : \A y \in ts : x <= y
         IN  <<transactions[t]>> \o SessionsOf(ts \ {t})

\* close() from `await this.sessionPool?.drain()` on (lines 751-760; drain:
\* queryable.ts lines 124-128): with no idle session nothing is awaited from
\* the backend and the fields are cleared at once
DrainThenClose ==
    IF idleSessions = <<>>
    THEN /\ closePc' = "closed"
         /\ connected' = FALSE
         /\ transactionManager' = FALSE
         /\ UNCHANGED <<idleSessions, totalSessions, deleteCalls, drained>>
    ELSE /\ closePc' = "draining"
         /\ drained' = drained \cup {c \in Callers : pc[c] = "holding"}
         /\ idleSessions' = <<>>
         /\ totalSessions' = Decrement(totalSessions, Len(idleSessions))
         /\ deleteCalls' = IssueDeletes(deleteCalls, idleSessions)
         /\ UNCHANGED <<connected, transactionManager>>

\* close() (lines 749-750) with dispose and finish(txId, true)
\* (transaction-manager.ts lines 90-103): every live transaction leaves the
\* map and its release closure is called with an error, all in the call
CloseCall ==
    /\ closePc = "idle"
    /\ IF ~Ensured(transactionManager)
       THEN \* this.transactionManager?.dispose() and this.sessionPool?.drain()
            \* do nothing; the fields are cleared
            /\ closePc' = "noop"
            /\ connected' = FALSE
            /\ transactionManager' = FALSE
            /\ UNCHANGED <<closeAwaits, transactions, released, deleteCalls, pc,
                           idleSessions, totalSessions, drained>>
       ELSE IF LiveTransactions # {}
       THEN /\ closePc' = "disposing"
            /\ closeAwaits' = LiveTransactions
            /\ transactions' = [t \in Callers |-> NoSession]
            /\ released' = [c \in Callers |-> released[c] \/ c \in LiveTransactions]
            /\ deleteCalls' = IssueDeletes(deleteCalls, SessionsOf(LiveTransactions))
            /\ pc' = [c \in Callers |->
                         IF c \in LiveTransactions THEN "rel_del" ELSE pc[c]]
            /\ UNCHANGED <<connected, transactionManager, idleSessions, totalSessions,
                           drained>>
       ELSE \* dispose has nothing to finish
            /\ DrainThenClose
            /\ UNCHANGED <<closeAwaits, transactions, released, pc>>
    /\ UNCHANGED <<maxSize, pendingAcquires, lastUsed, now, createdSessions, closure,
                   taken, ctx, repeatCalls, via, served, sawWaiter, acqMutated, ahead,
                   burst, connectPc, op, wpc, txArg, result, issued, answer,
                   usedSession, calledIn>>

\* close() after `await dispose()`: a rejected release rejects dispose and
\* close; otherwise drain runs
CloseDisposed ==
    /\ closePc = "disposing"
    /\ IF \E t \in closeAwaits : pc[t] = "threw"
       THEN /\ closePc' = "threw"
            /\ UNCHANGED <<idleSessions, totalSessions, deleteCalls, connected,
                           transactionManager, drained>>
       ELSE /\ \A t \in closeAwaits : pc[t] = "done"
            /\ DrainThenClose
    /\ UNCHANGED <<maxSize, pendingAcquires, lastUsed, now, createdSessions, pc,
                   closure, released, taken, ctx, repeatCalls, via, served, sawWaiter,
                   acqMutated, ahead, burst, connectPc, closeAwaits, transactions, op,
                   wpc, txArg, result, issued, answer, usedSession, calledIn>>

\* close() after `await drain()` (lines 753-760)
CloseDrained ==
    /\ closePc = "draining"
    /\ BackendAnswers
    /\ closePc' = "closed"
    /\ connected' = FALSE
    /\ transactionManager' = FALSE
    /\ UNCHANGED <<sessionPoolVars, connectPc, closeAwaits, transactions, op, wpc,
                   txArg, result, issued, answer, usedSession, calledIn>>

ClientNext ==
    \/ ConnectCall /\ UNCHANGED <<codecVars, backendVars>>
    \/ \E ok \in BOOLEAN : ConnectReady(ok) /\ UNCHANGED <<codecVars, backendVars>>
    \/ \E f \in Callers : \E t \in QueryTxArgs : ExecuteQuery(f, t) /\ UNCHANGED <<codecVars, backendVars>>
    \/ \E f \in Callers : ExecuteScript(f) /\ UNCHANGED <<codecVars, backendVars>>
    \/ \E f \in Callers : BeginTransaction(f) /\ UNCHANGED <<codecVars, backendVars>>
    \/ \E f \in Callers : \E o \in {"commit", "rollback"} : \E t \in TxIds :
           EndTransaction(f, o, t) /\ UNCHANGED <<codecVars, backendVars>>
    \/ \E f \in Callers : AcquireSettled(f) /\ UNCHANGED <<codecVars, backendVars>>
    \/ \E f \in Callers : \E o \in BackendOutcomes : QueryAnswered(f, o) /\ UNCHANGED <<codecVars, backendVars>>
    \/ \E f \in Callers : \E o \in BackendOutcomes : BeginAnswered(f, o) /\ UNCHANGED <<codecVars, backendVars>>
    \/ \E f \in Callers : \E o \in BackendOutcomes : EndAnswered(f, o) /\ UNCHANGED <<codecVars, backendVars>>
    \/ \E f \in Callers : ReleaseSettled(f) /\ UNCHANGED <<codecVars, backendVars>>
    \/ CloseCall /\ UNCHANGED <<codecVars, backendVars>>
    \/ CloseDisposed /\ UNCHANGED <<codecVars, backendVars>>
    \/ CloseDrained /\ UNCHANGED <<codecVars, backendVars>>
    \/ \E c \in Callers : ObtainSession(c) /\ UNCHANGED <<clientVars, codecVars, backendVars>>
    \/ \E c \in Callers : \E o \in {"ok", "createFailed"} : Created(c, o) /\ UNCHANGED <<clientVars, codecVars, backendVars>>
    \/ \E c \in Callers : FPAfterTake(c) /\ UNCHANGED <<clientVars, codecVars, backendVars>>
    \/ \E c \in Callers : \E o \in {"ok", "createFailed"} : FPCreated(c, o) /\ UNCHANGED <<clientVars, codecVars, backendVars>>
    \/ \E c \in Callers : TrimDeleted(c) /\ UNCHANGED <<clientVars, codecVars, backendVars>>
    \/ \E c \in Callers : ReleaseDeleted(c) /\ UNCHANGED <<clientVars, codecVars, backendVars>>

\* the client and its flows; the pool is driven by the client only, and the
\* clock stands still, so that no idle session expires
ClientSpec == Init /\ [][ClientNext]_vars

\* the client with every flow free to begin a transaction, so that several
\* transactions are live at once; a flow that began none may query without a
\* txId or end the first transaction
TxNext ==
    \/ ConnectCall /\ UNCHANGED <<codecVars, backendVars>>
    \/ \E ok \in BOOLEAN : ConnectReady(ok) /\ UNCHANGED <<codecVars, backendVars>>
    \/ \E f \in Callers : BeginCall(f) /\ UNCHANGED <<codecVars, backendVars>>
    \/ \E f \in Callers : ExecuteQuery(f, NoTx) /\ UNCHANGED <<codecVars, backendVars>>
    \/ \E f \in Callers : \E o \in {"commit", "rollback"} : \E t \in TxIds :
           EndTransaction(f, o, t) /\ UNCHANGED <<codecVars, backendVars>>
    \/ \E f \in Callers : AcquireSettled(f) /\ UNCHANGED <<codecVars, backendVars>>
    \/ \E f \in Callers : \E o \in BackendOutcomes : QueryAnswered(f, o) /\ UNCHANGED <<codecVars, backendVars>>
    \/ \E f \in Callers : \E o \in BackendOutcomes : BeginAnswered(f, o) /\ UNCHANGED <<codecVars, backendVars>>
    \/ \E f \in Callers : \E o \in BackendOutcomes : EndAnswered(f, o) /\ UNCHANGED <<codecVars, backendVars>>
    \/ \E f \in Callers : ReleaseSettled(f) /\ UNCHANGED <<codecVars, backendVars>>
    \/ CloseCall /\ UNCHANGED <<codecVars, backendVars>>
    \/ CloseDisposed /\ UNCHANGED <<codecVars, backendVars>>
    \/ CloseDrained /\ UNCHANGED <<codecVars, backendVars>>
    \/ \E c \in Callers : ObtainSession(c) /\ UNCHANGED <<clientVars, codecVars, backendVars>>
    \/ \E c \in Callers : \E o \in {"ok", "createFailed"} : Created(c, o) /\ UNCHANGED <<clientVars, codecVars, backendVars>>
    \/ \E c \in Callers : FPAfterTake(c) /\ UNCHANGED <<clientVars, codecVars, backendVars>>
    \/ \E c \in Callers : \E o \in {"ok", "createFailed"} : FPCreated(c, o) /\ UNCHANGED <<clientVars, codecVars, backendVars>>
    \/ \E c \in Callers : TrimDeleted(c) /\ UNCHANGED <<clientVars, codecVars, backendVars>>
    \/ \E c \in Callers : ReleaseDeleted(c) /\ UNCHANGED <<clientVars, codecVars, backendVars>>

TxSpec == Init /\ [][TxNext]_vars

\* ------------------------------------------------------------------------
\* close() with the answers of the deleteSession requests told apart
\* (YdbSessionManager.delete, src/src/queryable.ts lines 84-91)
\* ------------------------------------------------------------------------
DeleteThrowsOnFailure(ok) == ~ok

\* catch (error) { }: delete resolves whatever the backend answered
DeleteThrows(ok) == FALSE

\* the answers so far: "none", "failed" when every one was a failure, "mixed"
\* once one was a success
RecordDelete(ok) ==
    /\ deleteOutcomes' =
           IF ok THEN "mixed"
           ELSE IF deleteOutcomes = "none" THEN "failed" ELSE deleteOutcomes
    /\ UNCHANGED request

\* the delete request of release(error) is answered (lines 174-177)
ReleaseDeleteAnswered(c, ok) ==
    /\ RecordDelete(ok)
    /\ IF DeleteThrows(ok)
       THEN /\ pc[c] = "rel_del"
            /\ BackendAnswers
            /\ pc' = [pc EXCEPT ![c] = "threw"]
            /\ UNCHANGED <<maxSize, drained, idleSessions, totalSessions,
                           pendingAcquires, lastUsed, now, createdSessions,
                           deleteCalls, closure, released, taken, ctx, repeatCalls,
                           via, served, sawWaiter, acqMutated, ahead, burst>>
       ELSE ReleaseDeleted(c)
    /\ UNCHANGED <<clientVars, codecVars>>

\* the delete requests of trimExcess are answered (lines 203-204)
TrimDeleteAnswered(c, ok) ==
    /\ RecordDelete(ok)
    /\ IF DeleteThrows(ok)
       THEN /\ pc[c] = "trim_del"
            /\ BackendAnswers
            /\ pc' = [pc EXCEPT ![c] = "threw"]
            /\ UNCHANGED <<maxSize, drained, idleSessions, totalSessions,
                           pendingAcquires, lastUsed, now, createdSessions,
                           deleteCalls, closure, released, taken, ctx, repeatCalls,
                           via, served, sawWaiter, acqMutated, ahead, burst>>
       ELSE TrimDeleted(c)
    /\ UNCHANGED <<clientVars, codecVars>>

\* the delete requests of drain are answered (lines 127-128), then close()
\* goes on (part_003 lines 753-760)
DrainDeleteAnswered(ok) ==
    /\ RecordDelete(ok)
    /\ IF DeleteThrows(ok)
       THEN /\ closePc = "draining"
            /\ BackendAnswers
            /\ closePc' = "threw"
            /\ UNCHANGED <<sessionPoolVars, connected, transactionManager, connectPc,
                           closeAwaits, transactions, op, wpc, txArg, result, issued,
                           answer, usedSession, calledIn>>
       ELSE CloseDrained
    /\ UNCHANGED codecVars

CloseNext ==
    \/ ConnectCall /\ UNCHANGED <<codecVars, backendVars>>
    \/ \E ok \in BOOLEAN : ConnectReady(ok) /\ UNCHANGED <<codecVars, backendVars>>
    \/ \E f \in Callers : ExecuteQuery(f, NoTx) /\ UNCHANGED <<codecVars, backendVars>>
    \/ \E f \in Callers : BeginTransaction(f) /\ UNCHANGED <<codecVars, backendVars>>
    \/ \E f \in Callers : AcquireSettled(f) /\ UNCHANGED <<codecVars, backendVars>>
    \/ \E f \in Callers : \E o \in BackendOutcomes : QueryAnswered(f, o) /\ UNCHANGED <<codecVars, backendVars>>
    \/ \E f \in Callers : \E o \in BackendOutcomes : BeginAnswered(f, o) /\ UNCHANGED <<codecVars, backendVars>>
    \/ \E f \in Callers : ReleaseSettled(f) /\ UNCHANGED <<codecVars, backendVars>>
    \/ CloseCall /\ UNCHANGED <<codecVars, backendVars>>
    \/ CloseDisposed /\ UNCHANGED <<codecVars, backendVars>>
    \/ \E ok \in BOOLEAN : DrainDeleteAnswered(ok)
    \/ \E c \in Callers : ObtainSession(c) /\ UNCHANGED <<clientVars, codecVars, backendVars>>
    \/ \E c \in Callers : \E o \in {"ok", "createFailed"} : Created(c, o) /\ UNCHANGED <<clientVars, codecVars, backendVars>>
    \/ \E c \in Callers : FPAfterTake(c) /\ UNCHANGED <<clientVars, codecVars, backendVars>>
    \/ \E c \in Callers : \E o \in {"ok", "createFailed"} : FPCreated(c, o) /\ UNCHANGED <<clientVars, codecVars, backendVars>>
    \/ \E c \in Callers : \E ok \in BOOLEAN : TrimDeleteAnswered(c, ok)
    \/ \E c \in Callers : \E ok \in BOOLEAN : ReleaseDeleteAnswered(c, ok)

CloseSpec == Init /\ [][CloseNext]_vars

\* ------------------------------------------------------------------------
\* YdbResultNormalizer.collect (src/src/types.ts lines 49-156, the collect
\* that reads the execution statistics the client asks for with
\* StatsMode.BASIC).  A part of the stream has a
\* status with its issues and may carry a result set: a list of columns, each
\* with a name and a backend type or none, and rows of one item each.
\* ------------------------------------------------------------------------
FailureStatuses == {"ABORTED", "UNAVAILABLE"}

\* an item fromYdb / toJs cannot decode
Undecodable == 0

RowSets == {<<>>, <<1>>, <<1, 2>>, <<Undecodable>>}

\* column.type of a column the backend gave no type
NoType == ""

\* part.resultSet.columns
ColumnLists ==
    {<<>>,
     <<[name |-> "id", type |-> "Int32"]>>,
     <<[name |-> "title", type |-> "Utf8"]>>,
     <<[name |-> "id", type |-> NoType]>>,
     <<[name |-> "id", type |-> "Int32"], [name |-> "title", type |-> NoType]>>}

\* part.execStats: none, statistics that report no phase, and statistics of
\* two phases; a table-access entry gives updates.rows and deletes.rows, 0
\* standing for a missing operation or count as well.  The counts stay far
\* below Number.MAX_SAFE_INTEGER.
ReportedStats ==
    {[present |-> TRUE, queryPhases |-> <<>>],
     [present |-> TRUE,
      queryPhases |-> << <<[updates |-> 1, deletes |-> 0]>>,
                         <<[updates |-> 0, deletes |-> 2],
                           [updates |-> 1, deletes |-> 1]>> >>]}

\* a successful part carries no result set, or a result set without
\* statistics, or a well-formed result set with statistics
Parts ==
    [status : {"SUCCESS"}, issues : {0}, resultSet : {FALSE}, columns : {<<>>},
     rows : {<<>>}, execStats : {NoStats} \cup ReportedStats]
    \cup [status : {"SUCCESS"}, issues : {0}, resultSet : {TRUE},
          columns : ColumnLists, rows : RowSets, execStats : {NoStats}]
    \cup [status : {"SUCCESS"}, issues : {0}, resultSet : {TRUE},
          columns : {<<[name |-> "id", type |-> "Int32"]>>}, rows : {<<>>, <<1>>},
          execStats : ReportedStats]
    \cup [status : FailureStatuses, issues : 1..MaxIssues, resultSet : {FALSE},
          columns : {<<>>}, rows : {<<>>}, execStats : {NoStats}]

Streams == UNION {[1..n -> Parts] : n \in 0..MaxParts}

PartFailedNever(part) == FALSE

\* if (part.status !== StatusIds_StatusCode.SUCCESS)
PartFailed(part) == part.status # "SUCCESS"

\* YqlTypeMapper.normalizeValue(toJs(fromYdb(value, type)), columnType): the
\* value as the engine gets it, told apart from the item of the backend
NormalizeValue(v) == <<"js", v>>

\* the rows of a part up to the first item that cannot be decoded
RECURSIVE Decodable(_)
Decodable(rs) ==
    IF rs = <<>> \/ Head(rs) = Undecodable THEN <<>>
    ELSE <<<<NormalizeValue(Head(rs))>>>> \o Decodable(Tail(rs))

\* if (columns.length === 0): the columns are still to be captured
NotCaptured(cols) == Len(cols) = 0

\* if (!column.type) for some column of the part
HasUntyped(cols) == \E i \in 1..Len(cols) : cols[i].type = NoType

\* columnSchemas[index] of an item; every row has the one item of index 0
\* (lines 43-50)
ItemSchemaError(cols) ==
    IF Len(cols) = 0 THEN "MissingColumnMetadata"
    ELSE IF cols[1].type = NoType THEN "MissingColumnType"
    ELSE "none"

\* getOperationRows (lines 151-156): a missing operation or count gives 0n
GetOperationRows(operationRows) == IF operationRows = 0 THEN 0 ELSE operationRows

\* the inner loop of calculateRowsAffected over phase.tableAccess
RECURSIVE TableRows(_)
TableRows(tables) ==
    IF tables = <<>> THEN 0
    ELSE GetOperationRows(Head(tables).updates)
         + GetOperationRows(Head(tables).deletes)
         + TableRows(Tail(tables))

\* the outer loop of calculateRowsAffected over execStats.queryPhases
RECURSIVE PhaseRows(_)
PhaseRows(phases) ==
    IF phases = <<>> THEN 0
    ELSE TableRows(Head(phases)) + PhaseRows(Tail(phases))

\* calculateRowsAffected (types.ts lines 130-149); the branch that caps the
\* total at Number.MAX_SAFE_INTEGER is not taken by the counts of ReportedStats
CalculateRowsAffected(execStats) == PhaseRows(execStats.queryPhases)

\* normalizeStats (lines 158-181): the statistics with every bigint as a string
NormalizeStats(execStats) == execStats

\* if (part.execStats) { rowsAffected = ...; stats = ... } (lines 62-65, 107-110)
ReadStats(part) ==
    IF part.execStats.present
    THEN \* rowsAffected = this.calculateRowsAffected(part.execStats)
         /\ rowsAffected' = CalculateRowsAffected(part.execStats)
         /\ stats' = NormalizeStats(part.execStats)
    ELSE UNCHANGED <<rowsAffected, stats>>

\* the call of collect with a stream
CollectCall(s) ==
    /\ collectPc = "idle"
    /\ s \in Streams
    /\ stream' = s
    /\ collectPc' = "iterating"
    /\ UNCHANGED <<consumed, columns, rows, collectError, returned, rowsAffected, stats,
                   sessionPoolVars, clientVars, preparerVars, backendVars>>

\* one turn of `for await (const part of stream)`
CollectPart ==
    /\ collectPc = "iterating"
    /\ consumed < Len(stream)
    /\ consumed' = consumed + 1
    /\ LET part == stream[consumed + 1] IN
       IF PartFailed(part)
       THEN \* throw new YDBError(part.status, part.issues)
            /\ collectPc' = "threw"
            /\ collectError' = [kind |-> "StatusError", status |-> part.status,
                                issues |-> part.issues]
            /\ UNCHANGED <<columns, rows, rowsAffected, stats>>
       ELSE IF ~part.resultSet
       THEN \* the statistics are read, then continue
            /\ ReadStats(part)
            /\ UNCHANGED <<columns, rows, collectPc, collectError>>
       ELSE IF NotCaptured(columns) /\ HasUntyped(part.columns)
       THEN \* YDB returned column without type metadata
            /\ collectPc' = "threw"
            /\ collectError' = [kind |-> "MissingColumnType", status |-> "SUCCESS",
                                issues |-> 0]
            /\ UNCHANGED <<columns, rows, rowsAffected, stats>>
       ELSE /\ columns' = IF NotCaptured(columns) THEN part.columns ELSE columns
            /\ IF part.rows # <<>> /\ ItemSchemaError(part.columns) # "none"
               THEN \* Missing column metadata for index 0, or Missing type for
                    \* column index 0, at the first row
                    /\ collectPc' = "threw"
                    /\ collectError' = [kind |-> ItemSchemaError(part.columns),
                                        status |-> "SUCCESS", issues |-> 0]
                    /\ UNCHANGED <<rows, rowsAffected, stats>>
               ELSE /\ rows' = rows \o Decodable(part.rows)
                    /\ IF Len(Decodable(part.rows)) < Len(part.rows)
                       THEN \* fromYdb / toJs throws
                            /\ collectPc' = "threw"
                            /\ collectError' = [kind |-> "DecodeError",
                                                status |-> "SUCCESS", issues |-> 0]
                            /\ UNCHANGED <<rowsAffected, stats>>
                       ELSE /\ ReadStats(part)
                            /\ UNCHANGED <<collectPc, collectError>>
    /\ UNCHANGED <<stream, returned, sessionPoolVars, clientVars, preparerVars, backendVars>>

\* the stream is exhausted: collect returns its result
CollectReturn ==
    /\ collectPc = "iterating"
    /\ consumed = Len(stream)
    /\ collectPc' = "returned"
    /\ returned' = [columns |-> columns, rows |-> rows, rowsAffected |-> rowsAffected,
                    stats |-> stats]
    /\ UNCHANGED <<stream, consumed, columns, rows, collectError, rowsAffected, stats,
                   sessionPoolVars, clientVars, preparerVars, backendVars>>

CollectNext ==
    \/ \E s \in (IF collectPc = "idle" THEN Streams ELSE {}) : CollectCall(s)
    \/ CollectPart
    \/ CollectReturn

CollectSpec == Init /\ [][CollectNext]_vars

\* ------------------------------------------------------------------------
\* YqlQueryPreparer (src/src/yql-conversion.ts lines 180-575).  The text of a
\* query is a sequence of characters; an argument is the value of query.args
\* at an index together with the entry of query.argTypes at that index.
\* ------------------------------------------------------------------------
Digits == {"0", "1", "2"}
Chars == {"a", "$", "?"} \cup Digits
Texts == UNION {[1..n -> Chars] : n \in 0..MaxTextLen}

DigitValue(c) == CASE c = "0" -> 0 [] c = "1" -> 1 [] c = "2" -> 2

DigitChar(d) ==
    CASE d = 0 -> "0" [] d = 1 -> "1" [] d = 2 -> "2" [] d = 3 -> "3" [] d = 4 -> "4"
      [] d = 5 -> "5" [] d = 6 -> "6" [] d = 7 -> "7" [] d = 8 -> "8" [] d = 9 -> "9"

\* JavaScript values, by their shape: null, undefined, a number (an integer
\* in the range of every target type), a string that is no numeral, a string
\* that is the numeral of such a number, the empty string, a typed value of
\* the backend's library, and arrays of null and numbers
JsValues ==
    {<<"null">>, <<"undefined">>, <<"number">>, <<"text">>, <<"numeral">>,
     <<"blank">>, <<"prebound">>, <<"array">>, <<"array", "number">>,
     <<"array", "null", "number">>}

IsArray(v) == Head(v) = "array"
ArrayItems(v) == [i \in 1..(Len(v) - 1) |-> <<v[i + 1]>>]

\* the dbType of an entry of query.argTypes, as the pieces of its text: none,
\* Uint8, Optional<Int64>, Int32?, "optional < int32 >" and Optional<Int32>?
DbTypes ==
    {<<>>,
     <<"Uint8">>,
     <<"Optional<", "Int64", ">">>,
     <<"Int32", "?">>,
     <<"optional", " ", "<", " ", "int32", " ", ">">>,
     <<"Optional<", "Int32", ">", "?">>}

\* entries of query.argTypes; scalarType "none" is an absent entry
ArgTypes ==
    [scalarType : {"int", "bigint", "float", "string"},
     dbType : DbTypes,
     arity : {"scalar", "list"}]
    \cup [scalarType : {"none"}, dbType : {<<>>}, arity : {"scalar"}]

PlainArgs ==
    {[value |-> <<"number">>,
      type |-> [scalarType |-> "int", dbType |-> <<>>, arity |-> "scalar"]],
     [value |-> <<"text">>,
      type |-> [scalarType |-> "string", dbType |-> <<>>, arity |-> "scalar"]]}

AllArgs == [value : JsValues, type : ArgTypes]

\* the queries prepare is called with: every text with plain arguments, and
\* every argument behind one placeholder of either style
Queries ==
    [sql : Texts, args : UNION {[1..n -> PlainArgs] : n \in 0..MaxArgs}]
    \cup [sql : {<<"$", "1">>, <<"a", "?">>}, args : [1..1 -> AllArgs]]

\* /\$(\d+)/ matches at position i
DollarAt(sql, i) == sql[i] = "$" /\ i < Len(sql) /\ sql[i + 1] \in Digits

\* the position of the next match of a test at or after `from`, 0 for null
RECURSIVE ExecDollar(_, _)
ExecDollar(sql, from) ==
    IF from > Len(sql) THEN 0
    ELSE IF DollarAt(sql, from) THEN from
    ELSE ExecDollar(sql, from + 1)

RECURSIVE ExecQuestion(_, _)
ExecQuestion(sql, from) ==
    IF from > Len(sql) THEN 0
    ELSE IF sql[from] = "?" THEN from
    ELSE ExecQuestion(sql, from + 1)

\* the last position of the digits \d+ takes from position i on
RECURSIVE DigitsEnd(_, _)
DigitsEnd(sql, i) ==
    IF i < Len(sql) /\ sql[i + 1] \in Digits THEN DigitsEnd(sql, i + 1) ELSE i

\* Number(match[1])
RECURSIVE Number(_)
Number(digits) ==
    IF digits = <<>> THEN 0
    ELSE 10 * Number(SubSeq(digits, 1, Len(digits) - 1))
         + DigitValue(digits[Len(digits)])

Thrown(e) == [error |-> e, segments |-> <<>>, order |-> <<>>]

\* the negation of `index < 0 || index >= query.args.length`
InRange(index, n) == ~(index < 0 \/ index >= n)

\* the while loop over dollarRegex.exec (lines 240-251) and the push of the
\* rest of the text (line 268); lastIndex is the position of the next
\* character to read
RECURSIVE ExtractDollar(_, _, _, _, _)
ExtractDollar(sql, n, lastIndex, segments, order) ==
    LET at == ExecDollar(sql, lastIndex) IN
    IF at = 0
    THEN [error |-> "none",
          segments |-> Append(segments, SubSeq(sql, lastIndex, Len(sql))),
          order |-> order]
    ELSE LET end == DigitsEnd(sql, at + 1)
             index == Number(SubSeq(sql, at + 1, end)) - 1
         IN  IF ~InRange(index, n)
             THEN Thrown("PlaceholderOutOfRange")
             ELSE ExtractDollar(sql, n, end + 1,
                                Append(segments, SubSeq(sql, lastIndex, at - 1)),
                                Append(order, index))

\* the while loop over questionRegex.exec (lines 252-266)
RECURSIVE ExtractQuestion(_, _, _, _, _)
ExtractQuestion(sql, n, lastIndex, segments, order) ==
    LET at == ExecQuestion(sql, lastIndex)
        sequentialIndex == Len(order)
    IN  IF at = 0
        THEN [error |-> "none",
              segments |-> Append(segments, SubSeq(sql, lastIndex, Len(sql))),
              order |-> order]
        ELSE IF ~InRange(sequentialIndex, n)
        THEN Thrown("TooManyPlaceholders")
        ELSE ExtractQuestion(sql, n, at + 1,
                             Append(segments, SubSeq(sql, lastIndex, at - 1)),
                             Append(order, sequentialIndex))

\* extractSegments (lines 231-275); order holds indexes counted from 0
ExtractSegments(q) ==
    IF ExecDollar(q.sql, 1) # 0
    THEN ExtractDollar(q.sql, Len(q.args), 1, <<>>, <<>>)
    ELSE IF ExecQuestion(q.sql, 1) # 0
    THEN ExtractQuestion(q.sql, Len(q.args), 1, <<>>, <<>>)
    ELSE [error |-> "none", segments |-> <<q.sql>>, order |-> <<>>]

\* dbType.toLowerCase() on one piece
ToLowerCase(piece) ==
    CASE piece = "Optional<" -> <<"optional", "<">>
      [] piece = "Uint8" -> <<"uint8">>
      [] piece = "Int32" -> <<"int32">>
      [] piece = "Int64" -> <<"int64">>
      [] OTHER -> <<piece>>

\* dbType.toLowerCase().replace(/\s+/g, ''): the text in lower case without
\* its white space, the pieces "optional" "<" joined again
RECURSIVE Squeeze(_)
Squeeze(text) ==
    IF text = <<>> THEN <<>>
    ELSE LET head == ToLowerCase(Head(text))
             rest == Squeeze(Tail(text))
         IN  IF head = <<" ">> THEN rest
             ELSE IF head = <<"optional", "<">> THEN <<"optional<">> \o rest
             ELSE IF head = <<"optional">> /\ rest # <<>> /\ Head(rest) = "<"
             THEN <<"optional<">> \o Tail(rest)
             ELSE head \o rest

\* /^optional<(.*)>$/ matches
Wrapped(text) == Len(text) >= 2 /\ text[1] = "optional<" /\ text[Len(text)] = ">"

\* while (match) { optional = true; normalized = match[1] }
RECURSIVE Unwrap(_)
Unwrap(text) ==
    IF Wrapped(text) THEN Unwrap(SubSeq(text, 2, Len(text) - 1)) ELSE text

\* the first ">" of a text at or after `from`, 0 when there is none
RECURSIVE Closing(_, _)
Closing(text, from) ==
    IF from > Len(text) THEN 0
    ELSE IF text[from] = ">" THEN from
    ELSE Closing(text, from + 1)

\* normalized.replace(/optional<([^>]+)>/g, '$1')
RECURSIVE ReplaceInner(_)
ReplaceInner(text) ==
    IF text = <<>> THEN <<>>
    ELSE IF Head(text) = "optional<" /\ Closing(text, 2) > 2
    THEN SubSeq(text, 2, Closing(text, 2) - 1)
         \o ReplaceInner(SubSeq(text, Closing(text, 2) + 1, Len(text)))
    ELSE <<Head(text)>> \o ReplaceInner(Tail(text))

\* normalized.includes('optional<')
IncludesOptional(text) == \E i \in 1..Len(text) : text[i] = "optional<"

EndsWithMarkNever(text) == FALSE

\* normalized.endsWith('?')
EndsWithMark(text) == text # <<>> /\ text[Len(text)] = "?"

\* if (normalized.endsWith('?')) and the return (lines 404-409)
StripMark(normalized, optional) ==
    IF EndsWithMark(normalized)
    THEN [normalized |-> SubSeq(normalized, 1, Len(normalized) - 1), optional |-> TRUE]
    ELSE [normalized |-> normalized, optional |-> optional]

\* if (normalized.includes('optional<')) (lines 399-402), and what follows
StripInner(normalized, optional) ==
    IF IncludesOptional(normalized)
    THEN StripMark(ReplaceInner(normalized), TRUE)
    ELSE StripMark(normalized, optional)

\* the while loop over optionalWrapper (lines 391-397), and what follows
StripWrappers(normalized) == StripInner(Unwrap(normalized), Wrapped(normalized))

\* normalizeDbType (lines 383-410)
NormalizeDbType(dbType) ==
    IF dbType = <<>> THEN [normalized |-> <<>>, optional |-> FALSE]
    ELSE StripWrappers(Squeeze(dbType))

\* dbType.includes(name) for the name of an integer type
Includes(normalized, name) ==
    \E i \in 1..Len(normalized) :
        \/ normalized[i] = name
        \/ name = "int32" /\ normalized[i] = "uint32"
        \/ name = "int64" /\ normalized[i] = "uint64"

\* getIntegerMeta (lines 483-548) and getBigIntMeta (lines 550-573)
IntegerType(normalized) ==
    IF Includes(normalized, "uint8") THEN "Uint8"
    ELSE IF Includes(normalized, "uint64") THEN "Uint64"
    ELSE IF Includes(normalized, "int32") THEN "Int32"
    ELSE IF Includes(normalized, "int64") THEN "Int64"
    ELSE "Int32"

BigIntType(normalized) ==
    IF Includes(normalized, "uint64") THEN "Uint64"
    ELSE IF Includes(normalized, "int64") THEN "Int64"
    ELSE "Int64"

\* meta.typeFactory() of getScalarMeta (lines 277-348)
ScalarType(t) ==
    CASE t.scalarType = "int" -> IntegerType(NormalizeDbType(t.dbType).normalized)
      [] t.scalarType = "bigint" -> BigIntType(NormalizeDbType(t.dbType).normalized)
      [] t.scalarType = "float" -> "Float"
      [] OTHER -> "Utf8"

\* meta.optional
MetaOptional(t) == NormalizeDbType(t.dbType).optional

YdbValue(kind, type, payload, items) ==
    [kind |-> kind, type |-> type, payload |-> payload, items |-> items]

Failed == YdbValue("Error", <<>>, <<"InvalidParameterValue">>, <<>>)

\* the outcome of a coercion that throws
Throws == <<"throws">>

\* ensureNumber (lines 445-459): a number is returned as it is, a string goes
\* through Number(value), which gives the number of a numeral, 0 for the empty
\* string and NaN for any other text
EnsureNumber(v) ==
    CASE v = <<"number">> -> <<"number">>
      [] v = <<"numeral">> -> <<"number">>
      [] v = <<"blank">> -> <<"zero">>
      [] OTHER -> Throws

\* ensureBigInt (lines 461-472): BigInt(Math.trunc(value)) of a number,
\* BigInt(value) of a string that is not blank, which throws for what is no
\* numeral
EnsureBigInt(v) ==
    CASE v = <<"number">> -> <<"number">>
      [] v = <<"numeral">> -> <<"number">>
      [] OTHER -> Throws

\* the coercion meta.create applies for a type; String(value) takes anything
Coerced(type, v) ==
    CASE type = "Utf8" -> v
      [] type \in {"Int64", "Uint64"} -> EnsureBigInt(v)
      [] OTHER -> EnsureNumber(v)

CreateThrows(type, v) == Coerced(type, v) = Throws

\* meta.create(value)
Create(type, v) ==
    CASE type = "Utf8" -> <<"String">> \o Coerced(type, v)
      [] type \in {"Int64", "Uint64"} -> <<"BigInt">> \o Coerced(type, v)
      [] OTHER -> <<"Number">> \o Coerced(type, v)

\* value === null || value === undefined
IsNullish(v) == v \in {<<"null">>, <<"undefined">>}

\* isPreboundYdbValue (lines 474-481)
IsPreboundYdbValue(v) == v = <<"prebound">>

\* createScalarValue (lines 350-369)
CreateScalarValue(v, t) ==
    IF IsPreboundYdbValue(v) THEN YdbValue("Prebound", <<"Prebound">>, v, <<>>)
    ELSE IF IsNullish(v)
    THEN YdbValue("Optional", <<"Optional", ScalarType(t)>>, <<"nothing">>, <<>>)
    ELSE IF CreateThrows(ScalarType(t), v) THEN Failed
    ELSE IF MetaOptional(t)
    THEN YdbValue("Optional", <<"Optional", ScalarType(t)>>,
                  Create(ScalarType(t), v), <<>>)
    ELSE YdbValue("Scalar", <<ScalarType(t)>>, Create(ScalarType(t), v), <<>>)

UntypedItems(t) == <<>>

\* the item type of an empty list (line 375)
EmptyListItemType(t) ==
    IF MetaOptional(t) THEN <<"Optional", ScalarType(t)>> ELSE <<ScalarType(t)>>

\* createListValue (lines 371-381); new List(...items) takes the type of its
\* first item
CreateListValue(v, t) ==
    LET source == IF IsArray(v) THEN ArrayItems(v) ELSE <<>>
        items == [i \in 1..Len(source) |-> CreateScalarValue(source[i], t)]
    IN  IF Len(source) = 0
        THEN YdbValue("List", <<"List">> \o EmptyListItemType(t), <<>>, <<>>)
        ELSE IF \E i \in 1..Len(items) : items[i] = Failed THEN Failed
        ELSE YdbValue("List", <<"List">> \o items[1].type, <<>>, items)

\* the value bound for one entry of order (lines 189-199)
BoundValue(arg) ==
    IF arg.type.arity = "list"
    THEN CreateListValue(arg.value, arg.type)
    ELSE CreateScalarValue(arg.value, arg.type)

RECURSIVE ToDecimal(_)
ToDecimal(i) ==
    IF i < 10 THEN <<DigitChar(i)>>
    ELSE ToDecimal(i \div 10) \o <<DigitChar(i % 10)>>

ParamNameFromOne(index) == <<"$", "p">> \o ToDecimal(index + 1)

\* `$p${index}`
ParamName(index) == <<"$", "p">> \o ToDecimal(index)

\* the text built by textParts.forEach (lines 205-213), from part `from` on
RECURSIVE JoinText(_, _, _)
JoinText(segments, count, from) ==
    IF from > Len(segments) THEN <<>>
    ELSE segments[from]
         \o (IF from - 1 < count THEN ParamName(from - 1) ELSE <<>>)
         \o JoinText(segments, count, from + 1)

\* if (!query.args.length)
HasNoArgs(q) == Len(q.args) = 0

\* prepare(query) (lines 181-216)
PrepareResult(q) ==
    IF HasNoArgs(q)
    THEN [error |-> "none", text |-> q.sql, parameters |-> <<>>]
    ELSE LET info == ExtractSegments(q)
             values == [i \in 1..Len(info.order) |-> BoundValue(q.args[info.order[i] + 1])]
             names == {ParamName(i) : i \in 0..(Len(values) - 1)}
         IN  IF info.error # "none"
             THEN [error |-> info.error, text |-> <<>>, parameters |-> <<>>]
             ELSE IF \E i \in 1..Len(values) : values[i] = Failed
             THEN [error |-> "InvalidParameterValue", text |-> <<>>, parameters |-> <<>>]
             ELSE [error |-> "none",
                   text |-> JoinText(info.segments, Len(values), 1),
                   parameters |->
                       [name \in names |->
                           values[(CHOOSE i \in 0..(Len(values) - 1) :
                                       ParamName(i) = name) + 1]]]

\* a call of prepare: it returns a PreparedQuery or throws
Prepare(q) ==
    /\ preparePc = "idle"
    /\ q \in Queries
    /\ query' = q
    /\ LET r == PrepareResult(q) IN
       IF r.error # "none"
       THEN /\ preparePc' = "threw"
            /\ prepareError' = r.error
            /\ UNCHANGED prepared
       ELSE /\ preparePc' = "returned"
            /\ prepared' = [text |-> r.text, parameters |-> r.parameters]
            /\ UNCHANGED prepareError
    /\ UNCHANGED <<sessionPoolVars, clientVars, normalizerVars, backendVars>>

\* the inputs are drawn only while no call has been made
PrepareNext == \E q \in (IF preparePc = "idle" THEN Queries ELSE {}) : Prepare(q)

PrepareSpec == Init /\ [][PrepareNext]_vars

\* ------------------------------------------------------------------------
\* executeQuery with its query prepared and its request built
\* (src/unnamed/part_003 lines 638-676, createTxControl and
\* isSchemaOperation lines 803-852)
\* ------------------------------------------------------------------------
LowerLetters ==
    <<"a", "b", "c", "d", "e", "f", "g", "h", "i", "j", "k", "l", "m",
      "n", "o", "p", "q", "r", "s", "t", "u", "v", "w", "x", "y", "z">>

UpperLetters ==
    <<"A", "B", "C", "D", "E", "F", "G", "H", "I", "J", "K", "L", "M",
      "N", "O", "P", "Q", "R", "S", "T", "U", "V", "W", "X", "Y", "Z">>

\* the characters \s matches and trim() strips, among those of the texts
WhiteSpace == {" ", "\t", "\n"}

UpperChar(c) ==
    IF \E i \in DOMAIN LowerLetters : LowerLetters[i] = c
    THEN UpperLetters[CHOOSE i \in DOMAIN LowerLetters : LowerLetters[i] = c]
    ELSE c

\* queryText.toUpperCase()
ToUpperCase(text) == [i \in 1..Len(text) |-> UpperChar(text[i])]

RECURSIVE TrimStart(_)
TrimStart(text) ==
    IF text # <<>> /\ text[1] \in WhiteSpace THEN TrimStart(Tail(text)) ELSE text

RECURSIVE TrimEnd(_)
TrimEnd(text) ==
    IF text # <<>> /\ text[Len(text)] \in WhiteSpace
    THEN TrimEnd(SubSeq(text, 1, Len(text) - 1))
    ELSE text

\* queryText.trim()
Trim(text) == TrimEnd(TrimStart(text))

\* normalized.split(/\s+/, 1)[0]: the text before the first white space
RECURSIVE FirstToken(_)
FirstToken(text) ==
    IF text = <<>> \/ text[1] \in WhiteSpace THEN <<>>
    ELSE <<text[1]>> \o FirstToken(Tail(text))

\* the cases of the switch (lines 840-849)
SchemaKeywords ==
    {<<"C", "R", "E", "A", "T", "E">>,
     <<"D", "R", "O", "P">>,
     <<"A", "L", "T", "E", "R">>,
     <<"R", "E", "N", "A", "M", "E">>,
     <<"T", "R", "U", "N", "C", "A", "T", "E">>,
     <<"G", "R", "A", "N", "T">>,
     <<"R", "E", "V", "O", "K", "E">>,
     <<"P", "R", "A", "G", "M", "A">>,
     <<"U", "S", "E">>}

\* isSchemaOperation (lines 832-852)
IsSchemaOperation(queryText) ==
    LET normalized == ToUpperCase(Trim(queryText)) IN
    IF normalized = <<>> THEN FALSE
    ELSE FirstToken(normalized) \in SchemaKeywords

\* createTxControl (lines 803-830)
CreateTxControl(txId, queryText) ==
    IF Truthy(txId)
    THEN [selector |-> "txId", txId |-> txId, txMode |-> "none", commitTx |-> FALSE]
    ELSE IF IsSchemaOperation(queryText)
    THEN NoTxControl
    ELSE [selector |-> "beginTx", txId |-> NoTx,
          txMode |-> "serializableReadWrite", commitTx |-> TRUE]

\* the queries executeQuery is called with: statements without arguments
\* (plain, schema statements in several spellings, a word that only begins
\* with a keyword, the empty and the blank text), statements whose
\* placeholder is bound, and statements whose preparation fails
BoundArg == [value |-> <<"number">>,
             type |-> [scalarType |-> "int", dbType |-> <<>>, arity |-> "scalar"]]

UnboundArg == [value |-> <<"text">>,
               type |-> [scalarType |-> "int", dbType |-> <<>>, arity |-> "scalar"]]

SqlQueries ==
    {[sql |-> <<"a">>, args |-> <<>>],
     [sql |-> <<>>, args |-> <<>>],
     [sql |-> <<"\t">>, args |-> <<>>],
     [sql |-> <<"u", "s", "e">>, args |-> <<>>],
     [sql |-> <<"u", "s", "e", "r">>, args |-> <<>>],
     [sql |-> <<" ", "D", "r", "o", "p", "\n", "a">>, args |-> <<>>],
     [sql |-> <<"$", "1">>, args |-> <<BoundArg>>],
     [sql |-> <<"u", "s", "e", " ", "?">>, args |-> <<BoundArg>>],
     [sql |-> <<"$", "2">>, args |-> <<BoundArg>>],
     [sql |-> <<"$", "1">>, args |-> <<UnboundArg>>]}

\* Which flow calls with which query: the last flow calls with every query,
\* the other flows with the plain statement.
PlainQuery == [sql |-> <<"a">>, args |-> <<>>]

QueriesOf(f) == IF f = NumCallers THEN SqlQueries ELSE {PlainQuery}

PrepareThrowsNever(r) == FALSE

\* prepare threw (line 644): executeQuery ends with that error
PrepareThrows(r) == r.error # "none"

\* executeQuery (lines 638-655) up to its first await, with the query it is
\* called with: the ensure tests, prepare and encodeParameters, then the
\* session of the transaction or sessionPool.acquire()
ExecuteQueryPrepared(f, t, q) ==
    /\ q \in QueriesOf(f)
    /\ LET r == PrepareResult(q) IN
       IF EnsureDriver /\ Ensured(transactionManager) /\ PrepareThrows(r)
       THEN /\ wpc[f] = "idle"
            /\ t \in QueryTxArgs
            /\ MayCall(f, "query", t)
            /\ Rejected(f, "query", t, r.error)
            /\ request' = [request EXCEPT ![f] = [NoRequest EXCEPT !.query = q]]
       ELSE /\ ExecuteQuery(f, t)
            /\ request' =
                  IF wpc'[f] = "inflight"
                  THEN [request EXCEPT ![f] =
                           [query |-> q,
                            text |-> r.text,
                            txControl |-> CreateTxControl(t, r.text),
                            built |-> TRUE]]
                  ELSE IF wpc'[f] = "acquiring"
                  THEN [request EXCEPT ![f] =
                           [query |-> q, text |-> r.text,
                            txControl |-> NoTxControl, built |-> FALSE]]
                  ELSE [request EXCEPT ![f] = [NoRequest EXCEPT !.query = q]]
    /\ UNCHANGED <<codecVars, deleteOutcomes>>

\* sessionPool.acquire() has settled; executeQuery builds its request
\* (lines 657-676)
AcquireSettledBuilt(f) ==
    /\ AcquireSettled(f)
    /\ request' =
          IF op[f] = "query" /\ wpc'[f] = "inflight"
          THEN [request EXCEPT ![f] =
                   [query |-> @.query,
                    text |-> @.text,
                    txControl |-> CreateTxControl(txArg[f], @.text),
                    built |-> TRUE]]
          ELSE request
    /\ UNCHANGED <<codecVars, deleteOutcomes>>

QueryNext ==
    \/ ConnectCall /\ UNCHANGED <<codecVars, backendVars>>
    \/ \E ok \in BOOLEAN : ConnectReady(ok) /\ UNCHANGED <<codecVars, backendVars>>
    \/ \E f \in Callers : \E t \in QueryTxArgs :
           \E q \in (IF wpc[f] = "idle" THEN QueriesOf(f) ELSE {}) :
               ExecuteQueryPrepared(f, t, q)
    \/ \E f \in Callers : BeginTransaction(f) /\ UNCHANGED <<codecVars, backendVars>>
    \/ \E f \in Callers : \E o \in {"commit", "rollback"} : \E t \in TxIds :
           EndTransaction(f, o, t) /\ UNCHANGED <<codecVars, backendVars>>
    \/ \E f \in Callers : AcquireSettledBuilt(f)
    \/ \E f \in Callers : \E o \in BackendOutcomes : QueryAnswered(f, o) /\ UNCHANGED <<codecVars, backendVars>>
    \/ \E f \in Callers : \E o \in BackendOutcomes : BeginAnswered(f, o) /\ UNCHANGED <<codecVars, backendVars>>
    \/ \E f \in Callers : \E o \in BackendOutcomes : EndAnswered(f, o) /\ UNCHANGED <<codecVars, backendVars>>
    \/ \E f \in Callers : ReleaseSettled(f) /\ UNCHANGED <<codecVars, backendVars>>
    \/ \E c \in Callers : ObtainSession(c) /\ UNCHANGED <<clientVars, codecVars, backendVars>>
    \/ \E c \in Callers : \E o \in {"ok", "createFailed"} : Created(c, o) /\ UNCHANGED <<clientVars, codecVars, backendVars>>
    \/ \E c \in Callers : FPAfterTake(c) /\ UNCHANGED <<clientVars, codecVars, backendVars>>
    \/ \E c \in Callers : \E o \in {"ok", "createFailed"} : FPCreated(c, o) /\ UNCHANGED <<clientVars, codecVars, backendVars>>
    \/ \E c \in Callers : TrimDeleted(c) /\ UNCHANGED <<clientVars, codecVars, backendVars>>
    \/ \E c \in Callers : ReleaseDeleted(c) /\ UNCHANGED <<clientVars, codecVars, backendVars>>

QuerySpec == Init /\ [][QueryNext]_vars

\* ------------------------------------------------------------------------
\* Properties
\* ------------------------------------------------------------------------
Holding(c) == pc[c] = "holding"

OnLoan == {c \in Callers : Holding(c)}

LiveSessions == Len(idleSessions) + Cardinality(OnLoan)

\* C1: the number of live sessions (idle plus on loan) is at most maxSize in
\* every reachable state.
C1_LiveAtMostMaxSize == LiveSessions <= maxSize

\* C2: from an empty pool, when every caller has begun its acquire before
\* any session creation completed and all acquires have settled, exactly
\* maxSize sessions have been created and the other callers wait.
C2_BurstCreatesMaxSize ==
    (/\ burst
     /\ NumCallers >= maxSize
     /\ \A c \in Callers : pc[c] \in {"holding", "waiting"})
    => (/\ createdSessions = maxSize
        /\ Len(pendingAcquires) = NumCallers - maxSize)

\* C3: no session is held by two callers, none is both idle and held, and
\* none occurs twice in the idle set.
C3_SessionInOnePlace ==
    /\ \A c1, c2 \in OnLoan : c1 # c2 => closure[c1] # closure[c2]
    /\ \A c \in OnLoan : closure[c] \notin Range(idleSessions)
    /\ \A i, j \in 1..Len(idleSessions) :
           i # j => idleSessions[i] # idleSessions[j]

\* a session that went through a hand-off is on loan while another one,
\* returned by a release, sits in the idle set
C3_Witness ==
    /\ idleSessions # <<>>
    /\ \E c \in OnLoan : via[c] \in {"handoff", "fulfill"}
    /\ \E c \in Callers : released[c] /\ closure[c] \in Range(idleSessions)

\* the caller's release without error runs in this step
ReleasesClean(c) ==
    /\ Holding(c)
    /\ released'[c]
    /\ pc'[c] \in {"done", "trim_del"}

Unblocked == {w \in Callers : pc[w] = "waiting" /\ pc'[w] # "waiting"}

C5_NoOvertaking ==
    [][\A c \in Callers :
          pc[c] = "obtain" /\ pc'[c] \in {"create", "holding"}
              => ahead[c] \cap Range(pendingAcquires) = {}]_vars

\* C6: a release without error while a caller waits hands the released
\* session itself to the first waiter; the idle set is untouched and no
\* session is created.
C6_HandOffSameSession ==
    [][\A c \in Callers :
          Holding(c) /\ ~released[c] /\ released'[c] /\ pc'[c] # "rel_del"
          /\ pendingAcquires # <<>>
              => /\ pc'[Head(pendingAcquires)] = "holding"
                 /\ closure'[Head(pendingAcquires)] = closure[c]
                 /\ idleSessions' = idleSessions
                 /\ createdSessions' = createdSessions
                 /\ totalSessions' = totalSessions]_vars

\* maxSize = 1: the blocked second caller holds the one session ever created
C6_Witness ==
    /\ maxSize = 1
    /\ createdSessions = 1
    /\ \E c, w \in Callers :
           /\ c # w
           /\ pc[c] = "done"
           /\ Holding(w)
           /\ via[w] = "handoff"
           /\ closure[w] = closure[c]

\* C7: a second call of a release closure changes nothing in the pool and
\* issues no backend delete.
C7_ReleaseOneShot ==
    [][repeatCalls' # repeatCalls
          => UNCHANGED <<idleSessions, totalSessions, pendingAcquires,
                         deleteCalls, lastUsed, pc, closure>>]_vars

\* a closure was called again while its first call waits for the delete
C7_Witness ==
    /\ repeatCalls > 0
    /\ \E c \in Callers : pc[c] = "rel_del"

ErrorReleased(c) == pc[c] = "rel_del" \/ ctx[c] = "release"

\* C8: after release(error) the session is deleted at the backend, is not
\* idle and not on loan, the total drops by one, and if a caller waits one
\* waiter is then served.
C8_ErrorReleaseServesWaiter ==
    [][\A c \in Callers :
          /\ ErrorReleased(c)' =>
                 /\ deleteCalls'[closure'[c]] >= 1
                 /\ closure'[c] \notin Range(idleSessions')
                 /\ \A h \in Callers : pc'[h] = "holding" /\ h # c
                        => closure'[h] # closure'[c]
          /\ pc[c] = "rel_del" /\ pc'[c] # "rel_del"
                 => totalSessions' = totalSessions - 1
          /\ (/\ ctx'[c] = "release"
              /\ pc[c] \notin {"done", "threw"}
              /\ pc'[c] \in {"done", "threw"}
              /\ sawWaiter'[c]
              /\ served'[c] = 0)
                 => pendingAcquires' = <<>>]_vars

\* C9 as stated: an acquire whose session creation failed has left idle
\* set, total count and wait list as they were before the call.
C9_PoolAsBeforeCall ==
    \A c \in Callers : pc[c] = "failed" => ~acqMutated[c]

\* C9 as amended: the failed creation itself changes nothing; the failure
\* ends the acquire and the session is not counted.
C9_FailedCreateLeavesPool ==
    [][\A c \in Callers :
          /\ pc[c] = "create" /\ pc'[c] \notin {"create", "holding"}
                 => pc'[c] = "failed" /\ UNCHANGED poolVars
          /\ pc[c] = "fp_create" /\ pc'[c] = "failed"
                 => UNCHANGED poolVars]_vars

\* an acquire evicted expired sessions and then failed to create one
C9_Witness ==
    \E c \in Callers : pc[c] = "failed" /\ acqMutated[c]

Settled(c) == pc[c] \in {"start", "waiting", "done", "threw", "failed"}

\* C10: no waiter is left suspended with nobody left to serve it while the
\* pool has capacity.
C10_NoStrandedWaiter ==
    ~(/\ pendingAcquires # <<>>
      /\ totalSessions < maxSize
      /\ \A c \in Callers : Settled(c))

\* the places a session is in: the idle set, the hands of a holder, the
\* local variable of a running fulfillPending, the backend's delete requests
Placements(s) ==
    Cardinality({i \in 1..Len(idleSessions) : idleSessions[i] = s})
    + Cardinality({c \in Callers : Holding(c) /\ closure[c] = s})
    + Cardinality({c \in Callers : pc[c] = "fp_took" /\ taken[c] = s})
    + deleteCalls[s]

\* the commit or rollback of flow f found its transaction and has returned
EndFinished(f) ==
    /\ op[f] \in {"commit", "rollback"}
    /\ answer[f] # "none"
    /\ wpc[f] = "done"

\* C11: when a commit or rollback of a live txId has finished, whatever the
\* backend answered, the txId is out of the live map and the pinned session
\* was released exactly once; a failed backend commit is reported.
C11_EndAlwaysCleansUp ==
    \A f \in Callers :
        EndFinished(f) =>
            /\ ~TxLive(transactions, txArg[f])
            /\ released[txArg[f]]
            /\ Placements(usedSession[f]) = 1
            /\ (op[f] = "commit" /\ answer[f] = "failed")
                   => result[f] = "BackendError"

\* a commit the backend refused has returned its error after the release
C11_Witness ==
    \E f \in Callers :
        /\ EndFinished(f)
        /\ op[f] = "commit"
        /\ answer[f] = "failed"
        /\ result[f] = "BackendError"
        /\ pc[txArg[f]] = "done"
        /\ ~TxLive(transactions, txArg[f])

\* flow f is called in this step with the txId t
CalledWith(f, t) ==
    /\ wpc[f] = "idle"
    /\ wpc'[f] # "idle"
    /\ txArg'[f] = t

\* C12: once a commit or rollback of a txId has completed, a later commit,
\* rollback or query with that txId fails with UnknownTransaction, sends
\* nothing to the backend and releases no session.
C12_FinishedTxIsUnknown ==
    [][\A f \in Callers : \A t \in TxIds :
          CalledWith(f, t) /\ Ended(t)
              => /\ result'[f] = "UnknownTransaction"
                 /\ wpc'[f] = "done"
                 /\ ~issued'[f]
                 /\ UNCHANGED <<sessionPoolVars, transactions>>]_vars

\* a commit found its transaction finished by an earlier rollback or commit
C12_Witness ==
    \E f \in Callers :
        /\ op[f] = "commit"
        /\ calledIn[f] = "ended"
        /\ result[f] = "UnknownTransaction"

\* flow f called commit or rollback of transaction t and the call is over
EndCallOver(f, t) ==
    /\ op[f] \in {"commit", "rollback"}
    /\ txArg[f] = t
    /\ wpc[f] = "done"

\* C13: of the commit and rollback calls on one txId, overlapping or not,
\* one finishes the transaction and every other one fails with
\* UnknownTransaction; the pinned session is released exactly once.
C13_SecondEndFails ==
    \A t \in TxIds :
        /\ \A f, g \in Callers :
               f # g /\ EndCallOver(f, t) /\ EndCallOver(g, t)
                   => \/ result[f] = "UnknownTransaction"
                      \/ result[g] = "UnknownTransaction"
        /\ released[t] /\ closure[t] # NoSession => Placements(closure[t]) = 1

\* the backend has refused the beginTransaction of flow f
BeginFailed(f) == op[f] = "begin" /\ answer[f] = "failed"

QueryCalledWithTx(f) ==
    /\ wpc[f] = "idle"
    /\ wpc'[f] # "idle"
    /\ op'[f] = "query"
    /\ txArg'[f] # NoTx

\* C15: executeQuery with a live txId sends its request on the session begin
\* pinned to that txId and acquires nothing from the pool; with any other
\* txId it fails with UnknownTransaction before a request is sent.
C15_TxQueryOnPinnedSession ==
    [][\A f \in Callers :
          QueryCalledWithTx(f) =>
              LET t == txArg'[f] IN
              IF t \in TxIds /\ TxLive(transactions, t)
              THEN /\ usedSession'[f] = closure[t]
                   /\ pc'[f] = "start"
                   /\ UNCHANGED sessionPoolVars
              ELSE /\ result'[f] = "UnknownTransaction"
                   /\ ~issued'[f]
                   /\ UNCHANGED sessionPoolVars]_vars

\* C16: when close() completes, no transaction is live, the session of
\* every transaction that was live is deleted and not idle, and the idle
\* set is empty, whatever calls were in flight when close was called.
C16_CloseLeavesNothing ==
    [][closePc # "closed" /\ closePc' = "closed" =>
          /\ LiveTransactions' = {}
          /\ idleSessions' = <<>>
          /\ \A t \in closeAwaits :
                 /\ deleteCalls'[closure[t]] >= 1
                 /\ closure[t] \notin Range(idleSessions')]_vars

\* flow f calls an operation of the client in this step
Called(f) == wpc[f] = "idle" /\ wpc'[f] # "idle"

\* C17: an operation called before connect() has completed or after close()
\* has completed fails with the not-connected error, sends nothing to the
\* backend and changes neither the pool nor the live transactions.
C17_NotConnectedRejects ==
    [][\A f \in Callers :
          Called(f) /\ ClientPhase \in {"early", "late"}
              => /\ result'[f] = "NotConnected"
                 /\ wpc'[f] = "done"
                 /\ ~issued'[f]
                 /\ UNCHANGED <<sessionPoolVars, transactions>>]_vars

\* one operation was refused before connect completed, another after close
C17_Witness ==
    \E f, g \in Callers :
        /\ calledIn[f] = "early"
        /\ result[f] = "NotConnected"
        /\ calledIn[g] = "late"
        /\ result[g] = "NotConnected"
        /\ op[g] \in {"commit", "rollback"}


\* the rows collect has to deliver for the parts of a stream
RECURSIVE AllRows(_)
AllRows(s) ==
    IF s = <<>> THEN <<>>
    ELSE (IF Head(s).resultSet THEN Decodable(Head(s).rows) ELSE <<>>)
         \o AllRows(Tail(s))

\* every part of the stream was delivered with success and decoded in full
Complete(s) ==
    \A i \in 1..Len(s) :
        /\ ~(s[i].status # "SUCCESS")
        /\ s[i].resultSet => Len(Decodable(s[i].rows)) = Len(s[i].rows)

\* C18: when collect is handed a part with a non-success status it fails with
\* a StatusError carrying the status and the issues of that part, whatever
\* rows the parts before it delivered, and nothing is returned; what collect
\* returns is the result of a stream consumed to its end with every row of
\* every part in it, so a call yields a complete result or an error.
C18_FailedPartFailsCollect ==
    /\ [][(CollectPart /\ stream[consumed + 1].status # "SUCCESS")
            => /\ collectPc' = "threw"
               /\ collectError' = [kind |-> "StatusError",
                                   status |-> stream[consumed + 1].status,
                                   issues |-> stream[consumed + 1].issues]
               /\ returned' = NoResult]_vars
    /\ [](/\ collectPc = "threw" => returned = NoResult
          /\ returned # NoResult
                => /\ collectPc = "returned"
                   /\ consumed = Len(stream)
                   /\ Complete(stream)
                   /\ returned.rows = AllRows(stream))

\* a part fails after two parts that delivered rows: the rows are collected
\* inside collect and nothing of them is returned
C18_Witness ==
    /\ collectPc = "threw"
    /\ collectError.kind = "StatusError"
    /\ collectError.status = "ABORTED"
    /\ collectError.issues = 2
    /\ consumed = 3
    /\ stream[1].rows # <<>> /\ stream[2].rows # <<>>
    /\ Len(rows) >= 2
    /\ returned = NoResult


\* flow f runs executeScript, or executeQuery without a txId, on a session it
\* acquired for the call
AutoCommit(f) ==
    /\ op[f] = "script" \/ (op[f] = "query" /\ txArg[f] = NoTx)
    /\ issued[f]

\* some flow other than f holds the session s
HeldByOther(f, s) == \E w \in Callers \ {f} : Holding(w) /\ closure[w] = s

\* C19: executeScript and executeQuery without a txId release the session
\* acquired for the call exactly once.  When the request or the collection of
\* its result fails the release carries the error: the session is deleted,
\* and it is never idle and never in other hands afterwards.  When the call
\* succeeds the release carries no error: the session is idle or handed to a
\* waiter, and nothing is deleted for it.  The release() of the finally block
\* after a failure changes nothing.
C19_AutoCommitReleasesOnce ==
    /\ [][\A f \in Callers :
            LET s == closure[f] IN
            /\ AutoCommit(f) /\ wpc[f] = "inflight" /\ wpc'[f] # "inflight"
                  => /\ ~released[f] /\ released'[f]
                     /\ Placements(s)' = 1
                     /\ IF answer'[f] = "failed"
                        THEN /\ deleteCalls'[s] = deleteCalls[s] + 1
                             /\ s \notin Range(idleSessions')
                             /\ ~HeldByOther(f, s)'
                        ELSE /\ deleteCalls'[s] = deleteCalls[s]
                             /\ s \in Range(idleSessions') \/ HeldByOther(f, s)'
            /\ AutoCommit(f) /\ wpc[f] = "catching" /\ wpc'[f] # "catching"
                  => /\ wpc'[f] = "done"
                     /\ UNCHANGED <<idleSessions, pendingAcquires, deleteCalls,
                                    totalSessions, closure, released>>]_vars
    /\ [](\A f \in Callers :
            AutoCommit(f) /\ answer[f] = "failed"
                => /\ released[f]
                   /\ deleteCalls[closure[f]] = 1
                   /\ closure[f] \notin Range(idleSessions)
                   /\ ~HeldByOther(f, closure[f]))

\* one call failed and its session was deleted; another succeeded while a
\* third waited for a session, and its session went to the waiter
C19_Witness ==
    \E f, g, w \in Callers :
        /\ AutoCommit(f) /\ answer[f] = "failed" /\ wpc[f] = "done"
        /\ result[f] = "BackendError"
        /\ deleteCalls[closure[f]] = 1
        /\ AutoCommit(g) /\ answer[g] = "ok" /\ wpc[g] = "done"
        /\ w # g /\ via[w] = "handoff" /\ closure[w] = closure[g]


\* the answer to the executeQuery of flow f, called with the txId of a
\* transaction, arrives in this step and is a failure
TxQueryFails(f) ==
    /\ op[f] = "query"
    /\ txArg[f] \in TxIds
    /\ wpc[f] = "inflight"
    /\ wpc'[f] # "inflight"
    /\ answer'[f] = "failed"

\* the session of the live transaction t is in the hands of the transaction
Pinned(t) ==
    /\ Holding(t)
    /\ ~released[t]
    /\ closure[t] = transactions[t]
    /\ transactions[t] \notin Range(idleSessions)
    /\ deleteCalls[transactions[t]] = 0
    /\ ~HeldByOther(t, transactions[t])

\* this step is the finish of transaction t by commit or rollback, or the
\* dispose of close()
EndsTx(t) ==
    \/ \E f \in Callers :
           /\ op[f] \in {"commit", "rollback"}
           /\ txArg[f] = t
           /\ wpc[f] = "inflight"
           /\ wpc'[f] # "inflight"
    \/ closePc = "idle" /\ closePc' # "idle"

\* C20: a query with a txId that fails returns its error and changes neither
\* the live map nor the pool; the session of a live transaction stays pinned,
\* neither idle nor deleted nor released, and only commit, rollback or dispose
\* take a txId out of the live map or release its session.
C20_FailedTxQueryKeepsPin ==
    /\ [][/\ \A f \in Callers :
                TxQueryFails(f)
                    => /\ UNCHANGED <<transactions, sessionPoolVars>>
                       /\ wpc'[f] = "done"
                       /\ result'[f] = "BackendError"
          /\ \A t \in TxIds :
                /\ TxLive(transactions, t)
                /\ ~TxLive(transactions', t) \/ released'[t] \/ ~Pinned(t)'
                => EndsTx(t)]_vars
    /\ [](\A t \in TxIds : TxLive(transactions, t) => Pinned(t))

\* a query of a live transaction has failed and returned; the transaction is
\* live and holds its session
C20_Witness ==
    \E f \in Callers :
        /\ op[f] = "query"
        /\ txArg[f] \in TxIds
        /\ answer[f] = "failed"
        /\ wpc[f] = "done"
        /\ result[f] = "BackendError"
        /\ usedSession[f] = transactions[txArg[f]]
        /\ TxLive(transactions, txArg[f])
        /\ Pinned(txArg[f])


\* the positions of the text where an ordinal placeholder starts
Occurrences(sql) ==
    {i \in 1..(Len(sql) - 1) : sql[i] = "$" /\ sql[i + 1] \in Digits}

\* the last digit of the placeholder that starts at position i
LastDigit(sql, i) ==
    CHOOSE j \in (i + 1)..Len(sql) :
        /\ \A m \in (i + 1)..j : sql[m] \in Digits
        /\ j = Len(sql) \/ sql[j + 1] \notin Digits

\* the N of the placeholder $N that starts at position i
Ordinal(sql, i) == Number(SubSeq(sql, i + 1, LastDigit(sql, i)))

\* the k-th placeholder from the left, counted from 0
NthOccurrence(sql, k) ==
    CHOOSE i \in Occurrences(sql) :
        Cardinality({j \in Occurrences(sql) : j < i}) = k

\* the text with the placeholders from the k-th on, counted from 0, replaced
\* by $p<k>, $p<k+1>, ...: the last one first
RECURSIVE Rewritten(_, _)
Rewritten(sql, k) ==
    IF k >= Cardinality(Occurrences(sql)) THEN sql
    ELSE LET rest == Rewritten(sql, k + 1)
             at == NthOccurrence(sql, k)
         IN  SubSeq(rest, 1, at - 1) \o <<"$", "p", DigitChar(k)>>
             \o SubSeq(rest, LastDigit(sql, at) + 1, Len(rest))

\* the text uses ordinal placeholders and each of them names an argument
\* that can be encoded
WellFormedOrdinal(q) ==
    /\ Occurrences(q.sql) # {}
    /\ \A i \in Occurrences(q.sql) :
           /\ Ordinal(q.sql, i) \in 1..Len(q.args)
           /\ BoundValue(q.args[Ordinal(q.sql, i)]) # Failed

\* C21: for a text whose ordinal placeholders all name one of the k
\* arguments, prepare returns one parameter per placeholder occurrence, named
\* $p<i> for the i-th occurrence from the left counted from 0 and bound to the
\* encoded value of the argument the occurrence names, and the text with each
\* occurrence replaced by its name and nothing else changed.
C21_OrdinalPlaceholdersBound ==
    preparePc # "idle" /\ WellFormedOrdinal(query)
        => LET n == Cardinality(Occurrences(query.sql)) IN
           /\ preparePc = "returned"
           /\ DOMAIN prepared.parameters = {<<"$", "p", DigitChar(i)>> : i \in 0..(n - 1)}
           /\ \A i \in 0..(n - 1) :
                  prepared.parameters[<<"$", "p", DigitChar(i)>>]
                      = BoundValue(query.args[Ordinal(query.sql, NthOccurrence(query.sql, i))])
           /\ prepared.text = Rewritten(query.sql, 0)

\* $2 before $1 over two different arguments
C21_Witness ==
    /\ preparePc = "returned"
    /\ query.sql = <<"$", "2", "a", "$", "1">>
    /\ Len(query.args) = 2
    /\ query.args[1] # query.args[2]
    /\ prepared.text = <<"$", "p", "0", "a", "$", "p", "1">>
    /\ prepared.parameters[<<"$", "p", "0">>] = BoundValue(query.args[2])
    /\ prepared.parameters[<<"$", "p", "1">>] = BoundValue(query.args[1])


\* some ordinal placeholder of the text names no argument
HasOutOfRange(q) ==
    \E i \in Occurrences(q.sql) : Ordinal(q.sql, i) \notin 1..Len(q.args)

\* prepare threw the error e and produced nothing
PrepareFailedWith(e) ==
    /\ preparePc = "threw"
    /\ prepareError = e
    /\ prepared = NoPrepared

\* C22: when the text holds an ordinal placeholder $N with N < 1 or N above
\* the number of arguments, zero arguments included, prepare fails with
\* PlaceholderOutOfRange and produces no prepared query.
C22_OutOfRangeFails ==
    preparePc # "idle" /\ HasOutOfRange(query)
        => PrepareFailedWith("PlaceholderOutOfRange")

\* the positions of the ? placeholders
Marks(sql) == {i \in 1..Len(sql) : sql[i] = "?"}

\* the text uses ? placeholders and no ordinal ones
UsesQuestion(q) == Occurrences(q.sql) = {} /\ Marks(q.sql) # {}

\* C23: in a text with ? placeholders the i-th ? from the left is bound to
\* the i-th argument; with more ? than arguments, zero arguments included,
\* prepare fails with TooManyPlaceholders and produces no prepared query.
C23_QuestionMarksInOrder ==
    preparePc # "idle" /\ UsesQuestion(query)
        => LET n == Cardinality(Marks(query.sql)) IN
           IF n > Len(query.args)
           THEN PrepareFailedWith("TooManyPlaceholders")
           ELSE (\A i \in 1..n : BoundValue(query.args[i]) # Failed)
                    => /\ preparePc = "returned"
                       /\ \A i \in 1..n :
                              prepared.parameters[<<"$", "p", DigitChar(i - 1)>>]
                                  = BoundValue(query.args[i])


\* the argument a returned parameter $p<i> was bound to: the one the i-th
\* ordinal placeholder names, or the i-th argument in a text with ?
ArgOfParam(q, i) ==
    IF Occurrences(q.sql) # {}
    THEN q.args[Ordinal(q.sql, NthOccurrence(q.sql, i))]
    ELSE q.args[i + 1]

ParamCount == Cardinality(DOMAIN prepared.parameters)

\* C24: an argument whose value is null or undefined is bound, whatever its
\* declared scalar type and arity, to an Optional that carries no value and
\* whose inner type is the resolved scalar type.
C24_NullBindsTypedOptional ==
    preparePc = "returned"
        => \A i \in 0..(ParamCount - 1) :
               LET arg == ArgOfParam(query, i) IN
               arg.value \in {<<"null">>, <<"undefined">>}
                   => prepared.parameters[<<"$", "p", DigitChar(i)>>]
                          = YdbValue("Optional", <<"Optional", ScalarType(arg.type)>>,
                                     <<"nothing">>, <<>>)

\* C25: an argument of arity list whose value is an empty array is bound to
\* a list value with no items whose item type is the resolved scalar type,
\* inside Optional when the declared type is nullable: a list of Int32 for a
\* declared int32, never a list without item type.
C25_EmptyListIsTyped ==
    preparePc = "returned"
        => \A i \in 0..(ParamCount - 1) :
               LET arg == ArgOfParam(query, i)
                   bound == prepared.parameters[<<"$", "p", DigitChar(i)>>]
               IN  arg.type.arity = "list" /\ arg.value = <<"array">>
                       => /\ bound.kind = "List"
                          /\ bound.items = <<>>
                          /\ bound.type =
                                 IF MetaOptional(arg.type)
                                 THEN <<"List", "Optional", ScalarType(arg.type)>>
                                 ELSE <<"List", ScalarType(arg.type)>>

\* an empty array declared as a list of int is bound to an empty Int32 list
C25_Witness ==
    /\ preparePc = "returned"
    /\ Len(query.args) = 1
    /\ query.args[1].value = <<"array">>
    /\ query.args[1].type = [scalarType |-> "int", dbType |-> <<>>, arity |-> "list"]
    /\ prepared.parameters[<<"$", "p", "0">>]
           = YdbValue("List", <<"List", "Int32">>, <<>>, <<>>)


\* this step is a call of drain() on a pool with idle sessions: no flow
\* moves and the idle set changes
DrainStep == pc' = pc /\ idleSessions' # idleSessions

\* C26: drain issues one delete for each session idle at the call and for no
\* other, subtracts them from the total and leaves the idle set empty; a
\* session on loan stays with its holder, undeleted, and its release closure
\* is as it was, still to be called.
C26_DrainTakesIdleOnly ==
    [][DrainStep =>
          /\ idleSessions' = <<>>
          /\ \A s \in Sessions :
                 deleteCalls'[s] =
                     IF s \in Range(idleSessions) THEN deleteCalls[s] + 1
                     ELSE deleteCalls[s]
          /\ totalSessions' = Max(0, totalSessions - Len(idleSessions))
          /\ closure' = closure /\ released' = released
          /\ \A c \in Callers :
                 pc[c] = "holding"
                     => /\ pc'[c] = "holding"
                        /\ closure'[c] \notin Range(idleSessions)
                        /\ c \in drained']_vars

\* a session was on loan when drain ran; its holder released it afterwards
\* and it is idle, not deleted
C26_Witness ==
    \E c \in drained :
        /\ pc[c] = "done"
        /\ released[c]
        /\ closure[c] \in Range(idleSessions)
        /\ deleteCalls[closure[c]] = 0
        /\ \E s \in Sessions : deleteCalls[s] = 1


\* caller c gets, in this step, the session s out of the idle set: popped by
\* its own obtainSession, or taken by the fulfillPending of another flow
HandedFromIdle(c, s) ==
    /\ pc[c] # "holding"
    /\ pc'[c] = "holding"
    /\ closure'[c] = s
    /\ \/ s \in Range(idleSessions)
       \/ \E d \in Callers : pc[d] = "fp_took" /\ taken[d] = s

\* the idle sessions older than idleTimeoutMs
ExpiredIdle == {s \in Range(idleSessions) : now - lastUsed[s] > idleTimeoutMs}

\* the step in which caller c calls acquire: evictExpired runs in it
AcquireStep(c) == pc[c] = "start" /\ pc'[c] # "start"

\* what the call of acquire does with the expired sessions, and that the
\* passing of time alone removes nothing
EvictsAtAcquire ==
    /\ \A c \in Callers :
           AcquireStep(c)
               => /\ Range(idleSessions') = Range(idleSessions) \ ExpiredIdle
                  /\ totalSessions' = Max(0, totalSessions - Cardinality(ExpiredIdle))
                  /\ \A s \in Sessions :
                         deleteCalls'[s] =
                             IF s \in ExpiredIdle THEN deleteCalls[s] + 1
                             ELSE deleteCalls[s]
    /\ now' # now => UNCHANGED <<idleSessions, totalSessions, deleteCalls>>

\* C27: acquire never hands out an idle session whose time since lastUsed
\* exceeds idleTimeoutMs; each acquire removes the sessions that old from the
\* idle set, deletes them and subtracts them from the total, and keeps a
\* session idle for exactly idleTimeoutMs; time passing between calls expires
\* nothing.
C27_NoExpiredHandOut ==
    [][/\ \A c \in Callers : \A s \in Sessions :
              HandedFromIdle(c, s) => now - lastUsed[s] <= idleTimeoutMs
       /\ EvictsAtAcquire]_vars


\* caller c calls, in this step, its release closure for the first time,
\* without error and with no waiter queued
ReleaseToIdle(c) ==
    /\ pc[c] = "holding"
    /\ ~released[c]
    /\ released'[c]
    /\ pc'[c] \in {"done", "trim_del"}
    /\ pendingAcquires = <<>>

\* C28: a release without error and with no waiter queued refreshes lastUsed
\* of the session and puts it into the idle set; the idle set then holds at
\* most maxSize sessions, the excess being taken from its front, the oldest
\* inserted, deleted at the backend and subtracted from the total; when the
\* release completes after the deletes nothing else has changed.
C28_ReleaseToIdleTrims ==
    [][\A c \in Callers :
          /\ ReleaseToIdle(c) =>
                LET s == closure[c]
                    pushed == Append(idleSessions, s)
                    excess == IF Len(pushed) > maxSize THEN Len(pushed) - maxSize ELSE 0
                IN  /\ lastUsed'[s] = now
                    /\ s \in Range(idleSessions')
                    /\ Len(idleSessions') <= maxSize
                    /\ idleSessions' = SubSeq(pushed, excess + 1, Len(pushed))
                    /\ \A x \in Sessions :
                           deleteCalls'[x] =
                               IF \E k \in 1..excess : pushed[k] = x
                               THEN deleteCalls[x] + 1 ELSE deleteCalls[x]
                    /\ totalSessions' = Max(0, totalSessions - excess)
                    /\ pc'[c] = "trim_del" <=> excess > 0
          /\ pc[c] = "trim_del" /\ pc'[c] = "done"
                => UNCHANGED <<idleSessions, totalSessions, deleteCalls, lastUsed>>]_vars

\* a release found the idle set full: the oldest idle session was deleted
\* and the released one is idle
C28_Witness ==
    \E c \in Callers :
        /\ pc[c] = "trim_del"
        /\ closure[c] \in Range(idleSessions)
        /\ Len(idleSessions) = maxSize
        /\ \E x \in Sessions : x # closure[c] /\ deleteCalls[x] = 1 /\ x \notin Range(idleSessions)


\* a delete request is outstanding for the caller's release, or for the drain
\* of close()
AwaitsDelete(c) == pc[c] \in {"rel_del", "trim_del"}

\* close() ran dispose in this step
DisposeStep == closePc = "idle" /\ closePc' # "idle" /\ Ensured(transactionManager)

\* close() ran drain in this step
DrainOfCloseStep ==
    /\ closePc \in {"idle", "disposing"}
    /\ closePc' \in {"draining", "closed"}

\* C29: close() and dispose() surface no error of a deleteSession request,
\* even when every such request fails: no release awaiting a delete and no
\* drain awaiting its deletes ends by throwing, close() throws only when a
\* release it awaits threw, and nevertheless dispose empties the map of live
\* transactions and drain empties the idle set.
C29_CloseSurvivesFailedDeletes ==
    /\ [][/\ \A c \in Callers : AwaitsDelete(c) => pc'[c] # "threw"
          /\ closePc = "draining" => closePc' # "threw"
          /\ DisposeStep => \A t \in Callers : transactions'[t] = NoSession
          /\ DrainOfCloseStep => idleSessions' = <<>>]_vars
    /\ [](closePc = "threw" => \E t \in closeAwaits : pc[t] = "threw")

\* close() has finished after dispose ended the one live transaction and
\* drain deleted an idle session (two sessions were made, the transaction's
\* and one that a successful query gave back; no backend request failed, so
\* no other release deleted a session), and every delete request was
\* answered with a failure.
C29_Witness ==
    /\ closePc = "closed"
    /\ deleteOutcomes = "failed"
    /\ Cardinality(closeAwaits) = 1
    /\ \A f \in Callers : answer[f] # "failed"
    /\ createdSessions = 2
    /\ Cardinality({s \in Sessions : deleteCalls[s] >= 1}) = 2
    /\ idleSessions = <<>>
    /\ \A t \in Callers : transactions[t] = NoSession


\* the index of the first part of a stream that carries a result set, 0 when
\* there is none
FirstResultSet(s) ==
    IF \E i \in 1..Len(s) : s[i].resultSet
    THEN CHOOSE i \in 1..Len(s) :
             /\ s[i].resultSet
             /\ \A j \in 1..(i - 1) : ~s[j].resultSet
    ELSE 0

\* some column of the part reports no backend type
LacksType(part) == \E k \in 1..Len(part.columns) : part.columns[k].type = NoType

\* C30: the columns of the Result are the columns of the first part of the
\* stream that carries a result set, whatever the later parts carry; when
\* collect reaches that part and one of its columns has no backend type, it
\* fails with MissingColumnType and returns no Result.
C30_ColumnsFromFirstResultSet ==
    /\ [](returned # NoResult
            => returned.columns =
                   IF FirstResultSet(stream) = 0 THEN <<>>
                   ELSE stream[FirstResultSet(stream)].columns)
    /\ [][(/\ CollectPart
           /\ consumed + 1 = FirstResultSet(stream)
           /\ LacksType(stream[consumed + 1]))
            => /\ collectPc' = "threw"
               /\ collectError'.kind = "MissingColumnType"
               /\ returned' = NoResult]_vars
    /\ [](collectError.kind = "MissingColumnType" => returned = NoResult)


RECURSIVE SumSeq(_)
SumSeq(ns) == IF ns = <<>> THEN 0 ELSE Head(ns) + SumSeq(Tail(ns))

\* the update and delete row counts of every table-access entry of every
\* query phase the statistics of a part report
RowsOfPart(part) ==
    LET phases == part.execStats.queryPhases IN
    SumSeq([i \in 1..Len(phases) |->
               SumSeq([j \in 1..Len(phases[i]) |->
                          phases[i][j].updates + phases[i][j].deletes])])

\* the parts of a stream that carry statistics
StatsParts(s) == {i \in 1..Len(s) : s[i].execStats.present}

\* C31: the rowsAffected of the Result is the sum of the update and delete
\* row counts of every table-access entry of every phase over every part of
\* the stream that carries statistics, and it is absent when no part does.
C31_RowsAffectedSumsAllStats ==
    returned # NoResult
        => returned.rowsAffected =
               IF StatsParts(stream) = {} THEN Absent
               ELSE SumSeq([i \in 1..Len(stream) |-> RowsOfPart(stream[i])])


\* the declared type marks the argument nullable: its backend type hint reads
\* Optional<T> or T?, in any case and with any white space
MarkedNullable(t) ==
    /\ t.dbType # <<>>
    /\ \/ t.dbType[Len(t.dbType)] = "?"
       \/ /\ t.dbType[1] \in {"Optional<", "optional"}
          /\ t.dbType[Len(t.dbType)] = ">"

\* a value createScalarValue encodes: neither null nor undefined, and no
\* typed value of the backend's library, which is passed on as it is
Encodes(v) ==
    v \notin {<<"null">>, <<"undefined">>, <<"prebound">>}

\* C32: a non-null value of a scalar argument whose declared type marks it
\* nullable (Optional<T> or T?) is bound as an Optional of the resolved type T
\* that wraps the encoded value; without the marker the encoded value is
\* bound as it is, with type T.
C32_NullableHintWrapsValue ==
    preparePc = "returned"
        => \A i \in 0..(ParamCount - 1) :
               LET arg == ArgOfParam(query, i)
                   bound == prepared.parameters[<<"$", "p", DigitChar(i)>>]
                   T == ScalarType(arg.type)
               IN  arg.type.arity = "scalar" /\ Encodes(arg.value)
                       => IF MarkedNullable(arg.type)
                          THEN bound = YdbValue("Optional", <<"Optional", T>>,
                                                Create(T, arg.value), <<>>)
                          ELSE bound = YdbValue("Scalar", <<T>>,
                                                Create(T, arg.value), <<>>)

\* a number declared int with the hint Int32? is bound as an Optional of
\* Int32 that holds the number
C32_Witness ==
    /\ preparePc = "returned"
    /\ Len(query.args) = 1
    /\ query.args[1].value = <<"number">>
    /\ query.args[1].type = [scalarType |-> "int", dbType |-> <<"Int32", "?">>,
                             arity |-> "scalar"]
    /\ prepared.parameters[<<"$", "p", "0">>]
           = YdbValue("Optional", <<"Optional", "Int32">>, <<"Number", "number">>, <<>>)


\* the resolved type of the argument is an integer or a float type
NumericTarget(t) == t.scalarType \in {"int", "bigint", "float"}

\* a string that is not the numeral of a number
NonNumericString(v) == v \in {<<"text">>, <<"blank">>}

\* C33: for an argument of an integer or float type, a string that is not
\* numeric makes prepare fail with InvalidParameterValue; the numeral of a
\* number is bound as that number, and a number in the range of the type is
\* bound unchanged.
C33_NonNumericFails ==
    /\ (preparePc # "idle" /\ Len(query.args) = 1 /\ Len(query.sql) = 2
        /\ query.args[1].type.arity = "scalar"
        /\ NumericTarget(query.args[1].type)
        /\ NonNumericString(query.args[1].value))
           => PrepareFailedWith("InvalidParameterValue")
    /\ preparePc = "returned"
           => \A i \in 0..(ParamCount - 1) :
                  LET arg == ArgOfParam(query, i)
                      bound == prepared.parameters[<<"$", "p", DigitChar(i)>>]
                  IN  (/\ arg.type.arity = "scalar"
                       /\ NumericTarget(arg.type)
                       /\ arg.value \in {<<"number">>, <<"numeral">>})
                          => bound.payload[2] = "number"


\* C34: whenever a caller is suspended on the wait list the idle set is
\* empty: no caller waits while an idle session is available.
C34_NoWaiterWhileIdle ==
    pendingAcquires # <<>> => idleSessions = <<>>

\* a caller is still suspended on the wait list after a release has handed
\* its session to the waiter before it, and nothing is idle
C34_Witness ==
    /\ pendingAcquires # <<>>
    /\ \E w \in Callers : via[w] = "handoff" /\ pc[w] = "holding"
    /\ idleSessions = <<>>


\* the callers whose release with an error still awaits the answer of its
\* delete request
DeletionInFlight == {c \in Callers : pc[c] = "rel_del"}

C36_LiveTxOwnsSession ==
    \A t \in LiveTransactions :
        /\ Holding(t) /\ closure[t] = transactions[t]
        /\ transactions[t] \notin Range(idleSessions)
        /\ ~HeldByOther(t, transactions[t])
        /\ \A c \in Callers : taken[c] # transactions[t]
        /\ \A u \in LiveTransactions \ {t} : transactions[u] # transactions[t]

\* two transactions are live, on two sessions, while a third caller has got a
\* session from the pool
C36_Witness ==
    /\ Cardinality(LiveTransactions) = 2
    /\ \E c \in Callers \ LiveTransactions : Holding(c)


\* close() has completed, every operation of the client has returned, no
\* call of the pool is under way and every release closure handed out has
\* been called: nothing is left that could still run
AllReleasedAfterClose ==
    /\ closePc = "closed"
    /\ \A f \in Callers : wpc[f] \in {"idle", "done"}
    /\ \A c \in Callers : Settled(c) /\ ~Holding(c)
    /\ \A c \in Callers : closure[c] # NoSession => released[c]

\* C37: once close() has completed and every holder of a release closure has
\* called it, a delete request has been issued for every session that
\* createSession returned: none is left undeleted.
C37_EverySessionDeleted ==
    AllReleasedAfterClose
        => \A s \in 1..createdSessions : deleteCalls[s] >= 1


\* the query flow f's executeQuery was called with fails in prepare
PrepareFails(q) == PrepareResult(q).error # "none"

\* flow f made its call of executeQuery in this step, connected
QueryCalled(f) ==
    /\ wpc[f] = "idle"
    /\ wpc'[f] # "idle"
    /\ op'[f] = "query"
    /\ EnsureDriver
    /\ Ensured(transactionManager)

\* C38: when the preparation of the query fails, executeQuery fails before
\* it obtains a session: the call ends in its first step with the error of
\* prepare, that step leaves the whole pool (idle set, total, wait list,
\* sessions created and deleted, every release closure) and the map of live
\* transactions as they were, no request goes to the backend, and the call
\* never acquired or released anything.
C38_FailedPrepareTouchesNothing ==
    /\ [][\A f \in Callers :
            (QueryCalled(f) /\ PrepareFails(request'[f].query))
                => /\ wpc'[f] = "done"
                   /\ result'[f] = PrepareResult(request'[f].query).error
                   /\ UNCHANGED <<sessionPoolVars, transactions>>
                   /\ ~issued'[f]
                   /\ ~request'[f].built]_vars
    /\ [](\A f \in Callers :
            (op[f] = "query" /\ wpc[f] # "idle" /\ PrepareFails(request[f].query))
                => /\ pc[f] = "start"
                   /\ closure[f] = NoSession
                   /\ ~released[f]
                   /\ ~issued[f])

\* a call failed in prepare while a transaction was live, a session was idle
\* and another caller held a session
C38_Witness ==
    \E f \in Callers :
        /\ op[f] = "query"
        /\ wpc[f] = "done"
        /\ PrepareFails(request[f].query)
        /\ result[f] = "InvalidParameterValue"
        /\ \E t \in TxIds : TxLive(transactions, t)
        /\ idleSessions # <<>>
        /\ totalSessions >= 2


\* the same letter, whatever its case
SameLetter(c, k) == c = k \/ UpperChar(c) = k

\* the statement begins, after leading white space, with the word k
BeginsWithWord(text, k) ==
    \E from \in 1..(Len(text) + 1) :
        /\ \A i \in 1..(from - 1) : text[i] \in WhiteSpace
        /\ from + Len(k) - 1 <= Len(text)
        /\ \A i \in 1..Len(k) : SameLetter(text[from + i - 1], k[i])
        /\ from + Len(k) <= Len(text) => text[from + Len(k)] \in WhiteSpace

SchemaStatement(text) == \E k \in SchemaKeywords : BeginsWithWord(text, k)

\* the call of flow f passed a txId argument
WithTxId(f) == txArg[f] # NoTx

InTx(t) == [selector |-> "txId", txId |-> t, txMode |-> "none", commitTx |-> FALSE]

BeginSerializable ==
    [selector |-> "beginTx", txId |-> NoTx,
     txMode |-> "serializableReadWrite", commitTx |-> TRUE]

\* a request of executeQuery built by flow f
Built(f) == op[f] = "query" /\ request[f].built

RequestAsClaimed(f) ==
    IF WithTxId(f) THEN request[f].txControl = InTx(txArg[f])
    ELSE IF SchemaStatement(request[f].text) THEN request[f].txControl = NoTxControl
    ELSE request[f].txControl = BeginSerializable

\* C39: every executeQuery request with a txId carries that txId as its
\* selector with commitTx = false; every request without a txId whose text
\* does not begin with a schema keyword carries a begin-serializable selector
\* with commitTx = true; a schema statement without a txId carries no
\* transaction control.
C39_TxControlOfRequests == \A f \in Callers : Built(f) => RequestAsClaimed(f)

\* the same for the calls whose txId is not the empty string
TxControlOfNamedRequests ==
    \A f \in Callers : (Built(f) /\ txArg[f] # EmptyTx) => RequestAsClaimed(f)

\* running a query in a transaction does not end it: no step of a query
\* changes the map of live transactions
QueryKeepsTransaction ==
    [][\A f \in Callers :
          (op[f] = "query" /\ wpc[f] # wpc'[f]) => transactions' = transactions]_vars

====
